---- MODULE Spec2Model ----
(***************************************************************************)
(* A model of the load balancer: the round-robin / performance-weighted    *)
(* endpoint selector with its per-endpoint health records                  *)
(* (src/core/loadbalancer/round-robin.js, endpoint-health.js) and the      *)
(* request forwarder with its retry loop                                    *)
(* (src/core/forwarder/request-forwarder.js).                              *)
(*                                                                         *)
(* Time is Date.now() read from one clock, `now`, that only moves forward. *)
(* A JavaScript function body runs to completion between two awaits, so    *)
(* each action is the code between two suspension points.                  *)
(* avgResponseTimeMs is a double in the code; here it is an exact rational *)
(* <<numerator, denominator>> in lowest terms.                              *)
(***************************************************************************)
EXTENDS Integers, Sequences, FiniteSets, TLC

VARIABLES
    \* RoundRobinLoadBalancer
    endpoints,      \* this.endpoints (fixed at construction)
    currentIndex,   \* this.currentIndex
    endpointHealth, \* this.endpointHealth: endpoint -> EndpointHealth
    now,            \* Date.now()
    healthCheckEnabled, \* config.healthCheck.enabled
    \* what a caller of the load balancer observes
    last,           \* the last call made on the load balancer; for getNextEndpoint,
                    \* with its argument and what it returned
    streak,         \* per endpoint: markEndpointFailed calls since its last markEndpointSuccess
    failedAt,       \* per endpoint: the time of its last markEndpointFailed call (0: never)
    sampleCount,    \* per endpoint: recordResponseTime calls so far
    rrRun,          \* the current run of consecutive getNextEndpoint(false) calls on an
                    \* all-healthy pool (its last Len(endpoints)+1 calls): for each, the
                    \* cursor before the call and the endpoint returned
    \* one EndpointHealth object fed response times
    health,         \* the object
    samples,        \* the samples passed to its updateResponseTime so far
    \* one failure of the HTTP client, classified
    error,          \* the failure
    classified,     \* whether isRetryableError was applied to it
    retryable,      \* what it returned
    \* RequestForwarder: the configuration and the forwardRequest calls
    maxRetries,     \* config.server.maxRetries
    performanceBasedRouting, \* config.performanceBasedRouting
    pc,             \* per call: where it is ("loop", "awaiting", "backoff", "done")
    attempts,       \* per call: let attempts
    currentEndpoint, \* per call: const endpoint of the current attempt
    startTime,      \* per call: const startTime of the current attempt
    lastError,      \* per call: let lastError
    delay,          \* per call: the backoff time it is waiting for (0: none)
    outcome,        \* per call: what it returned or threw
    reply,          \* per call: what the HTTP client settled its last attempt with
    calls,          \* per call: how often it has called what
    tried,          \* per call: the endpoints its attempts went to, in order
    entry,          \* per call: every endpoint's consecutiveFailures when it began
    solo,           \* per call: nothing else has used the balancer since it began
    only500,        \* per call: every attempt so far was answered with a 500
    cancelled       \* per call: its inbound caller has gone away while it was suspended

lbVars == <<endpoints, currentIndex, endpointHealth, now, healthCheckEnabled>>
callerVars == <<last, streak, failedAt, sampleCount, rrRun>>
ewmaVars == <<health, samples>>
errorVars == <<error, classified, retryable>>
fwdVars == <<maxRetries, performanceBasedRouting, pc, attempts, currentEndpoint, startTime,
             lastError, delay, outcome, reply, calls, tried, entry, solo, only500,
             cancelled>>
vars == <<lbVars, callerVars, ewmaVars, errorVars, fwdVars>>

----------------------------------------------------------------------------
(* Bounds of the model *)

\* The clock stops here.
MaxNow == 3
\* No endpoint collects more consecutive failures than this.
MaxFailures == 3
\* No endpoint receives more response-time samples than this.
MaxSamples == 1
\* The pool holds at most this many endpoints where response times are recorded
\* (SpecPerformance).
MaxPerfEndpoints == 2
\* This many forwardRequest calls are made, concurrently (Spec).
MaxRequests == 2
\* config.server.maxRetries is at most this (Spec).
MaxRetries == 3
\* The pool holds at most this many endpoints where requests are forwarded (Spec).
MaxPool == 2
\* A call on its own makes at most this many attempts.
MaxLoneRetries == 6
\* and may be configured with a maxRetries as far below 0 as this.
MaxNegativeRetries == 1
\* An EndpointHealth object fed alone receives at most this many samples (SpecEwma).
MaxSequence == 3
\* config.healthCheck.failThreshold and config.healthCheck.recoveryTimeMs (in
\* ticks of the clock): configuration values, small so that the model is finite.
failThreshold == 2
recoveryTimeMs == 1

----------------------------------------------------------------------------
(* Values *)

\* The default endpoint list. The pools of the model are its prefixes: no endpoint,
\* one, two or all three, pairwise different.
Urls == << "http://localhost:8080", "http://localhost:8081", "http://localhost:8082" >>

\* An endpoint identity that is in no configured list.
UnknownEndpoint == "http://unknown:1"

\* JavaScript's null, as getNextEndpoint returns it.
Null == "null"

\* The response times, in ms, an attempt can record.
SampleTimes == {0, 10, 20}

Range(s) == {s[i] : i \in 1..Len(s)}

Min(S) == CHOOSE x \in S : \A y \in S : x <= y

----------------------------------------------------------------------------
(* Exact rationals <<n, d>>, d > 0, in lowest terms *)

Abs(x) == IF x < 0 THEN -x ELSE x

RECURSIVE Gcd(_, _)
Gcd(a, b) == IF b = 0 THEN a ELSE Gcd(b, a % b)

Rat(n, d) == LET g == Gcd(Abs(n), d) IN <<n \div g, d \div g>>

RatOfInt(n) == <<n, 1>>

RatAdd(x, y) == Rat(x[1] * y[2] + y[1] * x[2], x[2] * y[2])

RatSub(x, y) == Rat(x[1] * y[2] - y[1] * x[2], x[2] * y[2])

RatMul(x, y) == Rat(x[1] * y[1], x[2] * y[2])

\* 1/x for x > 0
RatInv(x) == Rat(x[2], x[1])

RatLess(x, y) == x[1] * y[2] < y[1] * x[2]

RatZero == <<0, 1>>

----------------------------------------------------------------------------
(* EndpointHealth *)

\* constructor: no failure, never failed, no response time yet
NewEndpointHealth ==
    [consecutiveFailures |-> 0, lastFailureTime |-> 0, avgResponseTimeMs |-> RatZero]

\* isHealthy with the recovery window one tick short: >= for >
isHealthy_windowShort(h, t) ==
    IF h.consecutiveFailures >= failThreshold
    THEN (t - h.lastFailureTime) >= recoveryTimeMs
    ELSE TRUE

\* isHealthy(), read at time t
isHealthy(h, t) ==
    IF h.consecutiveFailures >= failThreshold
    THEN (t - h.lastFailureTime) > recoveryTimeMs
    ELSE TRUE

\* recordSuccess taking one failure off instead of all
recordSuccess_decrement(h) ==
    [h EXCEPT !.consecutiveFailures = IF @ > 0 THEN @ - 1 ELSE 0]

recordSuccess(h) == [h EXCEPT !.consecutiveFailures = 0]

\* recordFailure that sets the count to 1 instead of adding 1
recordFailure_setsOne(h, t) ==
    [h EXCEPT !.consecutiveFailures = 1, !.lastFailureTime = t]

\* recordFailure that also forgets the average response time
recordFailure_clearsAverage(h, t) ==
    [h EXCEPT !.consecutiveFailures = @ + 1, !.lastFailureTime = t,
              !.avgResponseTimeMs = RatZero]

\* recordFailure that starts the count afresh once the recovery time has passed
recordFailure_restartsAfterRecovery(h, t) ==
    IF h.consecutiveFailures >= failThreshold /\ (t - h.lastFailureTime) > recoveryTimeMs
    THEN [h EXCEPT !.consecutiveFailures = 1, !.lastFailureTime = t]
    ELSE [h EXCEPT !.consecutiveFailures = @ + 1, !.lastFailureTime = t]

recordFailure(h, t) ==
    [h EXCEPT !.consecutiveFailures = @ + 1, !.lastFailureTime = t]

\* const alpha = 0.3
alpha == <<3, 10>>

\* updateResponseTime with the two weights exchanged
updateResponseTime_weightsSwapped(h, responseTimeMs) ==
    IF h.avgResponseTimeMs = RatZero
    THEN [h EXCEPT !.avgResponseTimeMs = RatOfInt(responseTimeMs)]
    ELSE [h EXCEPT !.avgResponseTimeMs =
              RatAdd(RatMul(RatSub(RatOfInt(1), alpha), RatOfInt(responseTimeMs)),
                     RatMul(alpha, @))]

updateResponseTime(h, responseTimeMs) ==
    IF h.avgResponseTimeMs = RatZero
    THEN [h EXCEPT !.avgResponseTimeMs = RatOfInt(responseTimeMs)]
    ELSE [h EXCEPT !.avgResponseTimeMs =
              RatAdd(RatMul(alpha, RatOfInt(responseTimeMs)),
                     RatMul(RatSub(RatOfInt(1), alpha), @))]

----------------------------------------------------------------------------
(* RoundRobinLoadBalancer *)

\* this.endpointHealth.get(endpoint) is defined
Known(endpoint) == endpoint \in DOMAIN endpointHealth

Healthy(endpoint) == isHealthy(endpointHealth[endpoint], now)

\* The result of a selection: the endpoint returned and the cursor afterwards.
Selection(endpoint, index) == [endpoint |-> endpoint, currentIndex |-> index]

\* getEndpointRoundRobin leaving the cursor on the endpoint it returns
getEndpointRoundRobin_cursorStuck ==
    LET n == Len(endpoints)
        hits == {i \in 0..(n - 1) : Healthy(endpoints[((currentIndex + i) % n) + 1])}
    IN  IF hits # {}
        THEN LET index == (currentIndex + Min(hits)) % n
             IN  Selection(endpoints[index + 1], index)
        ELSE Selection(endpoints[currentIndex + 1], (currentIndex + 1) % n)

\* getEndpointRoundRobin without the last resort: null when no endpoint is healthy
getEndpointRoundRobin_noLastResort ==
    LET n == Len(endpoints)
        hits == {i \in 0..(n - 1) : Healthy(endpoints[((currentIndex + i) % n) + 1])}
    IN  IF hits # {}
        THEN LET index == (currentIndex + Min(hits)) % n
             IN  Selection(endpoints[index + 1], (index + 1) % n)
        ELSE Selection(Null, currentIndex)

\* getEndpointRoundRobin that starts its scan one past the cursor
getEndpointRoundRobin_scanFromNext ==
    LET n == Len(endpoints)
        hits == {i \in 1..n : Healthy(endpoints[((currentIndex + i) % n) + 1])}
    IN  IF hits # {}
        THEN LET index == (currentIndex + Min(hits)) % n
             IN  Selection(endpoints[index + 1], (index + 1) % n)
        ELSE Selection(endpoints[currentIndex + 1], (currentIndex + 1) % n)

\* getEndpointRoundRobin whose last resort leaves the cursor where it is
getEndpointRoundRobin_lastResortStays ==
    LET n == Len(endpoints)
        hits == {i \in 0..(n - 1) : Healthy(endpoints[((currentIndex + i) % n) + 1])}
    IN  IF hits # {}
        THEN LET index == (currentIndex + Min(hits)) % n
             IN  Selection(endpoints[index + 1], (index + 1) % n)
        ELSE Selection(endpoints[currentIndex + 1], currentIndex)

\* getEndpointRoundRobin that moves the cursor on without wrapping it around
getEndpointRoundRobin_noWrap ==
    LET n == Len(endpoints)
        hits == {i \in 0..(n - 1) : Healthy(endpoints[(((currentIndex % n) + i) % n) + 1])}
    IN  IF hits # {}
        THEN LET index == ((currentIndex % n) + Min(hits)) % n
             IN  Selection(endpoints[index + 1], index + 1)
        ELSE Selection(endpoints[(currentIndex % n) + 1], currentIndex + 1)

\* getEndpointRoundRobin that moves the cursor two past the endpoint it returns
getEndpointRoundRobin_advancesTwice ==
    LET n == Len(endpoints)
        hits == {i \in 0..(n - 1) : Healthy(endpoints[((currentIndex + i) % n) + 1])}
    IN  IF hits # {}
        THEN LET index == (currentIndex + Min(hits)) % n
             IN  Selection(endpoints[index + 1], (index + 2) % n)
        ELSE Selection(endpoints[currentIndex + 1], (currentIndex + 2) % n)

getEndpointRoundRobin ==
    LET n == Len(endpoints)
        \* the offsets i of the loop at which it would return
        hits == {i \in 0..(n - 1) : Healthy(endpoints[((currentIndex + i) % n) + 1])}
    IN  IF hits # {}
        THEN LET index == (currentIndex + Min(hits)) % n
             IN  Selection(endpoints[index + 1], (index + 1) % n)
        ELSE \* all endpoints are unhealthy: the one at the cursor, as a last resort
             Selection(endpoints[currentIndex + 1], (currentIndex + 1) % n)

\* hasResponseTimeData that looks at the healthy endpoints only
hasResponseTimeData_healthyOnly ==
    \E e \in DOMAIN endpointHealth :
        /\ isHealthy(endpointHealth[e], now)
        /\ RatLess(RatZero, endpointHealth[e].avgResponseTimeMs)

hasResponseTimeData ==
    \E e \in DOMAIN endpointHealth :
        RatLess(RatZero, endpointHealth[e].avgResponseTimeMs)

\* healthyEndpoints: the healthy endpoints, in list order
healthyEndpoints == SelectSeq(endpoints, LAMBDA e : Healthy(e))

\* The weight taken as the response time itself, not its inverse
Weight_notInverted(e) ==
    LET avg == endpointHealth[e].avgResponseTimeMs
    IN  IF RatLess(RatZero, avg) THEN avg ELSE RatOfInt(1)

\* weights[i] of healthyEndpoints[i]
Weight(e) ==
    LET avg == endpointHealth[e].avgResponseTimeMs
    IN  IF RatLess(RatZero, avg) THEN RatInv(avg) ELSE RatOfInt(1)

\* weights.indexOf(Math.max(...weights)), as a position of healthyEndpoints (from 1)
maxWeightIndex ==
    LET hs == healthyEndpoints
    IN  Min({i \in 1..Len(hs) :
                \A j \in 1..Len(hs) : ~RatLess(Weight(hs[i]), Weight(hs[j]))})

\* getEndpointBasedOnPerformance that, with no healthy endpoint, returns the first of
\* the list instead of falling back to round-robin
getEndpointBasedOnPerformance_noFallback(pickFastest, randomIndex) ==
    IF Len(healthyEndpoints) = 0
    THEN Selection(endpoints[1], currentIndex)
    ELSE IF pickFastest
         THEN Selection(healthyEndpoints[maxWeightIndex], currentIndex)
         ELSE Selection(healthyEndpoints[randomIndex + 1], currentIndex)

\* getEndpointBasedOnPerformance that always takes the fastest endpoint
getEndpointBasedOnPerformance_alwaysFastest(pickFastest, randomIndex) ==
    IF Len(healthyEndpoints) = 0
    THEN getEndpointRoundRobin
    ELSE Selection(healthyEndpoints[maxWeightIndex], currentIndex)

\* getEndpointBasedOnPerformance that moves the cursor on by one
getEndpointBasedOnPerformance_movesCursor(pickFastest, randomIndex) ==
    IF Len(healthyEndpoints) = 0
    THEN getEndpointRoundRobin
    ELSE LET chosen == IF pickFastest THEN healthyEndpoints[maxWeightIndex]
                       ELSE healthyEndpoints[randomIndex + 1]
         IN  Selection(chosen, (currentIndex + 1) % Len(endpoints))

\* pickFastest: Math.random() < 0.7; randomIndex: Math.floor(Math.random() * length)
getEndpointBasedOnPerformance(pickFastest, randomIndex) ==
    IF Len(healthyEndpoints) = 0
    THEN getEndpointRoundRobin
    ELSE IF pickFastest
         THEN Selection(healthyEndpoints[maxWeightIndex], currentIndex)
         ELSE Selection(healthyEndpoints[randomIndex + 1], currentIndex)

\* getNextEndpoint without the test for an empty list: the round-robin policy finds
\* nothing at the cursor and moves the cursor all the same
getNextEndpoint_noEmptyCheck(usePerformanceBasedRouting, pickFastest, randomIndex) ==
    IF Len(endpoints) = 0
    THEN Selection(Null, currentIndex + 1)
    ELSE IF usePerformanceBasedRouting /\ hasResponseTimeData
         THEN getEndpointBasedOnPerformance(pickFastest, randomIndex)
         ELSE getEndpointRoundRobin

getNextEndpoint(usePerformanceBasedRouting, pickFastest, randomIndex) ==
    IF Len(endpoints) = 0
    THEN Selection(Null, currentIndex)
    ELSE IF usePerformanceBasedRouting /\ hasResponseTimeData
         THEN getEndpointBasedOnPerformance(pickFastest, randomIndex)
         ELSE getEndpointRoundRobin

\* The values Math.floor(Math.random() * healthyEndpoints.length) can take.
RandomIndexes ==
    IF Len(endpoints) = 0 \/ Len(healthyEndpoints) = 0 THEN {0}
    ELSE 0..(Len(healthyEndpoints) - 1)

\* markEndpointSuccess that leaves the failure count as it is
markEndpointSuccess_forgets(endpoint) == endpointHealth

markEndpointSuccess(endpoint) ==
    IF Known(endpoint)
    THEN [endpointHealth EXCEPT ![endpoint] = recordSuccess(@)]
    ELSE endpointHealth

\* markEndpointFailed that records nothing
markEndpointFailed_forgets(endpoint) == endpointHealth

\* markEndpointFailed that records the failure against every endpoint of the pool
markEndpointFailed_marksAll(endpoint) ==
    IF Known(endpoint)
    THEN [e \in DOMAIN endpointHealth |-> recordFailure(endpointHealth[e], now)]
    ELSE endpointHealth

markEndpointFailed(endpoint) ==
    IF Known(endpoint)
    THEN [endpointHealth EXCEPT ![endpoint] = recordFailure(@, now)]
    ELSE endpointHealth

\* recordResponseTime that opens a health record for an endpoint it does not know
recordResponseTime_createsRecord(endpoint, responseTimeMs) ==
    IF Known(endpoint)
    THEN [endpointHealth EXCEPT ![endpoint] = updateResponseTime(@, responseTimeMs)]
    ELSE (endpoint :> updateResponseTime(NewEndpointHealth, responseTimeMs)) @@ endpointHealth

recordResponseTime(endpoint, responseTimeMs) ==
    IF Known(endpoint)
    THEN [endpointHealth EXCEPT ![endpoint] = updateResponseTime(@, responseTimeMs)]
    ELSE endpointHealth

\* new Date(lastFailureTime).toISOString()
toISOString(t) == [iso |-> t]

\* Math.round(x * 100) / 100 for x >= 0
roundToHundredths(x) == Rat((200 * x[1] + x[2]) \div (2 * x[2]), 100)

\* getHealthData that reports the failure count against the threshold only
getHealthData_thresholdOnly(url, h, t) ==
    [url |-> url,
     healthy |-> h.consecutiveFailures < failThreshold,
     consecutiveFailures |-> h.consecutiveFailures,
     lastFailureTime |-> IF h.lastFailureTime # 0 THEN toISOString(h.lastFailureTime)
                         ELSE Null,
     avgResponseTimeMs |-> roundToHundredths(h.avgResponseTimeMs)]

\* health.getHealthData() of the record of url, at time t
getHealthData(url, h, t) ==
    [url |-> url,
     healthy |-> isHealthy(h, t),
     consecutiveFailures |-> h.consecutiveFailures,
     lastFailureTime |-> IF h.lastFailureTime # 0 THEN toISOString(h.lastFailureTime)
                         ELSE Null,
     avgResponseTimeMs |-> roundToHundredths(h.avgResponseTimeMs)]

\* getEndpointHealth(): endpoint -> health data
getEndpointHealth ==
    [e \in DOMAIN endpointHealth |-> getHealthData(e, endpointHealth[e], now)]

----------------------------------------------------------------------------
(* The failures the HTTP client (axios, with its default validateStatus) raises *)

\* error.code of a failure with no response: the connection-level codes, other
\* codes of the client, and none ("").
NetworkCodes ==
    { "ECONNREFUSED", "ECONNABORTED", "ECONNRESET", "ETIMEDOUT", "ENOTFOUND",
      "EHOSTUNREACH", "EPIPE", "EAI_AGAIN", "ERR_NETWORK", "ERR_BAD_RESPONSE",
      "ERR_FR_TOO_MANY_REDIRECTS", "ERR_CANCELED", "" }

\* The statuses the client rejects with the response attached: every final status
\* outside 2xx (a 3xx is one when it is not a redirect the client follows, as 304).
RejectedStatuses == (300..308) \cup (400..431) \cup {451, 499} \cup (500..511) \cup {599}

\* The headers of an upstream response, and its body: some content, or empty.
Headers == "headers"
Body == "body"
EmptyBody == ""

\* A failure with no response.
NetworkFailure(code) ==
    [settled |-> "rejected", code |-> code, hasResponse |-> FALSE, status |-> 0,
     headers |-> "", data |-> ""]

\* The client's code for a failure that carries a response.
StatusCode(status) ==
    IF status \in 400..499 THEN "ERR_BAD_REQUEST"
    ELSE IF status \in 500..599 THEN "ERR_BAD_RESPONSE"
    ELSE ""

\* A failure that carries the response of the given status and body.
ResponseFailure(status, data) ==
    [settled |-> "rejected", code |-> StatusCode(status), hasResponse |-> TRUE,
     status |-> status, headers |-> Headers, data |-> data]

StatusFailure(status) == ResponseFailure(status, Body)

\* A response the client resolves with: a 2xx status.
Resolved(status, data) ==
    [settled |-> "resolved", code |-> "", hasResponse |-> TRUE,
     status |-> status, headers |-> Headers, data |-> data]

Failures ==
    {NetworkFailure(code) : code \in NetworkCodes}
        \cup {StatusFailure(status) : status \in RejectedStatuses}

----------------------------------------------------------------------------
(* RequestForwarder: the classification of a failure *)

\* isRetryableError that does not retry 408 Request Timeout
isRetryableError_no408(e) ==
    IF e.code \in {"ECONNREFUSED", "ECONNABORTED", "ECONNRESET", "ETIMEDOUT"}
    THEN TRUE
    ELSE IF e.hasResponse
         THEN IF e.status >= 500 /\ e.status < 600 THEN TRUE
              ELSE IF e.status = 429 THEN TRUE
              ELSE FALSE
         ELSE TRUE

isRetryableError(e) ==
    IF e.code \in {"ECONNREFUSED", "ECONNABORTED", "ECONNRESET", "ETIMEDOUT"}
    THEN TRUE
    ELSE IF e.hasResponse
         THEN IF e.status >= 500 /\ e.status < 600 THEN TRUE
              ELSE IF e.status = 429 THEN TRUE
              ELSE IF e.status = 408 THEN TRUE
              ELSE FALSE
         ELSE TRUE

----------------------------------------------------------------------------
(* The parts of the state a specification below does not use *)

NoBalancer ==
    /\ endpoints = << >>
    /\ currentIndex = 0
    /\ endpointHealth = << >>
    /\ now = 1
    /\ healthCheckEnabled = TRUE

NoCaller ==
    /\ last = [op |-> "new"]
    /\ streak = << >>
    /\ failedAt = << >>
    /\ sampleCount = << >>
    /\ rrRun = << >>

NoEwma ==
    /\ health = NewEndpointHealth
    /\ samples = << >>

NoError ==
    /\ error = NetworkFailure("")
    /\ classified = FALSE
    /\ retryable = FALSE

NoForwarder ==
    /\ maxRetries = 0
    /\ performanceBasedRouting = FALSE
    /\ pc = << >>
    /\ attempts = << >>
    /\ currentEndpoint = << >>
    /\ startTime = << >>
    /\ lastError = << >>
    /\ delay = << >>
    /\ outcome = << >>
    /\ reply = << >>
    /\ calls = << >>
    /\ tried = << >>
    /\ entry = << >>
    /\ solo = << >>
    /\ only500 = << >>
    /\ cancelled = << >>

----------------------------------------------------------------------------
(* The load balancer driven through its public methods *)

\* new RoundRobinLoadBalancer(config, logger) with the first n of the URLs
NewBalancer(n) ==
    /\ endpoints = SubSeq(Urls, 1, n)
    /\ currentIndex = 0
    /\ endpointHealth = [e \in Range(endpoints) |-> NewEndpointHealth]
    /\ now = 1
    /\ last = [op |-> "new"]
    /\ streak = [e \in Range(endpoints) |-> 0]
    /\ failedAt = [e \in Range(endpoints) |-> 0]
    /\ sampleCount = [e \in Range(endpoints) |-> 0]
    /\ rrRun = << >>

AllHealthy == \A e \in Range(endpoints) : Healthy(e)

\* s with x appended, cut to its last n elements
KeepLast(s, x, n) ==
    LET t == Append(s, x)
    IN  IF Len(t) > n THEN SubSeq(t, Len(t) - n + 1, Len(t)) ELSE t

\* loadBalancer.getNextEndpoint(usePerformanceBasedRouting)
GetNextEndpoint(usePerformanceBasedRouting) ==
    \E pickFastest \in BOOLEAN, randomIndex \in RandomIndexes :
        LET r == getNextEndpoint(usePerformanceBasedRouting, pickFastest, randomIndex)
        IN  /\ currentIndex' = r.currentIndex
            /\ last' = [op |-> "getNextEndpoint",
                        usePerformanceBasedRouting |-> usePerformanceBasedRouting,
                        returned |-> r.endpoint]
            /\ rrRun' = IF ~usePerformanceBasedRouting /\ AllHealthy /\ Len(endpoints) > 0
                        THEN KeepLast(rrRun, [cursor |-> currentIndex,
                                              returned |-> r.endpoint],
                                      Len(endpoints) + 1)
                        ELSE << >>
            /\ UNCHANGED <<healthCheckEnabled, endpoints, endpointHealth, now, streak, failedAt, sampleCount>>
            /\ UNCHANGED <<ewmaVars, errorVars, fwdVars>>

\* loadBalancer.markEndpointFailed(endpoint)
MarkEndpointFailed(endpoint) ==
    /\ Known(endpoint) => endpointHealth[endpoint].consecutiveFailures < MaxFailures
    /\ endpointHealth' = markEndpointFailed(endpoint)
    /\ last' = [op |-> "markEndpointFailed"]
    /\ streak' = IF Known(endpoint) THEN [streak EXCEPT ![endpoint] = @ + 1] ELSE streak
    /\ failedAt' = IF Known(endpoint) THEN [failedAt EXCEPT ![endpoint] = now] ELSE failedAt
    /\ rrRun' = << >>
    /\ UNCHANGED <<healthCheckEnabled, endpoints, currentIndex, now, sampleCount>>
    /\ UNCHANGED <<ewmaVars, errorVars, fwdVars>>

\* loadBalancer.markEndpointSuccess(endpoint)
MarkEndpointSuccess(endpoint) ==
    /\ endpointHealth' = markEndpointSuccess(endpoint)
    /\ last' = [op |-> "markEndpointSuccess"]
    /\ streak' = IF Known(endpoint) THEN [streak EXCEPT ![endpoint] = 0] ELSE streak
    /\ UNCHANGED <<healthCheckEnabled, endpoints, currentIndex, now, failedAt, sampleCount, rrRun>>
    /\ UNCHANGED <<ewmaVars, errorVars, fwdVars>>

\* loadBalancer.recordResponseTime(endpoint, responseTimeMs)
RecordResponseTime(endpoint, responseTimeMs) ==
    /\ Known(endpoint) => sampleCount[endpoint] < MaxSamples
    /\ endpointHealth' = recordResponseTime(endpoint, responseTimeMs)
    /\ last' = [op |-> "recordResponseTime"]
    /\ sampleCount' = IF Known(endpoint) THEN [sampleCount EXCEPT ![endpoint] = @ + 1]
                      ELSE sampleCount
    /\ UNCHANGED <<healthCheckEnabled, endpoints, currentIndex, now, streak, failedAt, rrRun>>
    /\ UNCHANGED <<ewmaVars, errorVars, fwdVars>>

\* getEndpointHealth that clears the failures of every endpoint it reports
GetEndpointHealth_clearsFailures ==
    /\ last' = [op |-> "getEndpointHealth", returned |-> getEndpointHealth]
    /\ endpointHealth' = [e \in DOMAIN endpointHealth |-> recordSuccess(endpointHealth[e])]
    /\ UNCHANGED <<healthCheckEnabled, endpoints, currentIndex, now, streak,
                   failedAt, sampleCount, rrRun>>
    /\ UNCHANGED <<ewmaVars, errorVars, fwdVars>>

\* loadBalancer.getEndpointHealth()
GetEndpointHealth ==
    /\ last' = [op |-> "getEndpointHealth", returned |-> getEndpointHealth]
    /\ UNCHANGED <<healthCheckEnabled, endpoints, currentIndex, endpointHealth, now, streak,
                   failedAt, sampleCount, rrRun>>
    /\ UNCHANGED <<ewmaVars, errorVars, fwdVars>>

\* Time passes.
Tick ==
    /\ now < MaxNow
    /\ now' = now + 1
    /\ last' = [op |-> "tick"]
    /\ UNCHANGED <<healthCheckEnabled, endpoints, currentIndex, endpointHealth, streak, failedAt,
                   sampleCount, rrRun>>
    /\ UNCHANGED <<ewmaVars, errorVars, fwdVars>>

\* The endpoint identities a caller can pass.
Callable == Range(endpoints) \cup {UnknownEndpoint}

\* Selection and health: every call but recordResponseTime.
InitBalancer ==
    /\ \E n \in 0..Len(Urls) : NewBalancer(n)
    /\ healthCheckEnabled = TRUE
    /\ NoEwma
    /\ NoError
    /\ NoForwarder

NextBalancer ==
    \/ \E usePerformanceBasedRouting \in BOOLEAN :
           GetNextEndpoint(usePerformanceBasedRouting)
    \/ \E endpoint \in Callable : MarkEndpointFailed(endpoint)
    \/ \E endpoint \in Callable : MarkEndpointSuccess(endpoint)
    \/ Tick

SpecBalancer == InitBalancer /\ [][NextBalancer]_vars

\* Every call, on the smaller pools.
InitPerformance ==
    /\ \E n \in 0..MaxPerfEndpoints : NewBalancer(n)
    /\ healthCheckEnabled = TRUE
    /\ NoEwma
    /\ NoError
    /\ NoForwarder

NextPerformance ==
    \/ \E usePerformanceBasedRouting \in BOOLEAN :
           GetNextEndpoint(usePerformanceBasedRouting)
    \/ \E endpoint \in Callable : MarkEndpointFailed(endpoint)
    \/ \E endpoint \in Callable : MarkEndpointSuccess(endpoint)
    \/ \E endpoint \in Callable, responseTimeMs \in SampleTimes :
           RecordResponseTime(endpoint, responseTimeMs)
    \/ Tick

SpecPerformance == InitPerformance /\ [][NextPerformance]_vars

\* getNextEndpoint(true) returns the given endpoint.
Chooses(endpoint) ==
    /\ GetNextEndpoint(TRUE)
    /\ last'.returned = endpoint

\* The endpoints of the largest pool of SpecPerformance.
PerfUrls == Range(SubSeq(Urls, 1, MaxPerfEndpoints))

\* Performance routing in use: getNextEndpoint(true) called again and again, between
\* failures and response times reported, with Math.random() fair: no result that
\* stays possible is avoided for ever.
NextRouting ==
    \/ GetNextEndpoint(TRUE)
    \/ \E endpoint \in Range(endpoints) : MarkEndpointFailed(endpoint)
    \/ \E endpoint \in Range(endpoints), responseTimeMs \in SampleTimes :
           RecordResponseTime(endpoint, responseTimeMs)
    \/ Tick

FairPerformance ==
    /\ InitPerformance
    /\ [][NextRouting]_vars
    /\ \A endpoint \in PerfUrls : WF_vars(Chooses(endpoint))

\* Selection, health and the health report, with health checks enabled or disabled
\* in the configuration.
InitHealth ==
    /\ \E n \in 0..MaxPerfEndpoints : NewBalancer(n)
    /\ healthCheckEnabled \in BOOLEAN
    /\ NoEwma
    /\ NoError
    /\ NoForwarder

NextHealth ==
    \/ \E usePerformanceBasedRouting \in BOOLEAN :
           GetNextEndpoint(usePerformanceBasedRouting)
    \/ \E endpoint \in Callable : MarkEndpointFailed(endpoint)
    \/ \E endpoint \in Callable : MarkEndpointSuccess(endpoint)
    \/ \E endpoint \in Callable, responseTimeMs \in SampleTimes :
           RecordResponseTime(endpoint, responseTimeMs)
    \/ GetEndpointHealth
    \/ Tick

SpecHealth == InitHealth /\ [][NextHealth]_vars

----------------------------------------------------------------------------
(* RequestForwarder.forwardRequest, called concurrently *)

\* The forwardRequest calls.
Requests == 1..MaxRequests

\* What the HTTP client settles an attempt with.
Answers ==
    { Resolved(200, Body),
      ResponseFailure(304, EmptyBody),
      ResponseFailure(404, Body), ResponseFailure(404, EmptyBody),
      ResponseFailure(500, Body),
      NetworkFailure("ECONNREFUSED") }

\* lastError = null, and a call's reply before its first attempt settles
NoFailure ==
    [settled |-> "none", code |-> "", hasResponse |-> FALSE, status |-> 0,
     headers |-> "", data |-> ""]

\* What forwardRequest has returned or thrown.
Pending ==
    [kind |-> "pending", status |-> 0, headers |-> "", data |-> "", lastError |-> NoFailure]

\* return { status, headers, data }
Returned(status, headers, data) ==
    [kind |-> "response", status |-> status, headers |-> headers, data |-> data,
     lastError |-> NoFailure]

\* throw new Error('No endpoints available to process request')
NoEndpointsAvailable ==
    [kind |-> "No endpoints available to process request", status |-> 0, headers |-> "",
     data |-> "", lastError |-> NoFailure]

\* throw lastError: the client's failure itself, instead of the error wrapping it
AllAttemptsFailed_rethrows(e) ==
    [kind |-> "the failure of the HTTP client", status |-> e.status,
     headers |-> e.headers, data |-> e.data, lastError |-> e]

\* throw new Error(`Failed to process request after ${maxRetries} attempts: ...`)
AllAttemptsFailed(e) ==
    [kind |-> "Failed to process request after maxRetries attempts", status |-> 0,
     headers |-> "", data |-> "", lastError |-> e]

\* { error: error.message }
ErrorMessageBody == "{ error: error.message }"

NoCalls ==
    [getNextEndpoint |-> 0, client |-> 0, markEndpointSuccess |-> 0,
     markEndpointFailed |-> 0, recordResponseTime |-> 0, delayedRetry |-> 0]

\* Math.random() * 100, the jitter of a backoff
Jitters == {0, 99}

\* Every endpoint's consecutiveFailures.
FailureCounts == [e \in DOMAIN endpointHealth |-> endpointHealth[e].consecutiveFailures]

\* Call p has begun and has neither returned nor thrown.
InFlight(p) == pc[p] # "done" /\ (pc[p] # "loop" \/ attempts[p] > 0)

\* Call p uses the balancer (it selects an endpoint, or marks one failed or
\* successful): the calls in flight beside it are no longer alone.
Disturbed(p) == [q \in Requests |-> IF q # p /\ InFlight(q) THEN FALSE ELSE solo[q]]

\* new RequestForwarder(new RoundRobinLoadBalancer(config), config, logger), and
\* MaxRequests inbound requests about to be forwarded
Init ==
    /\ \E n \in 0..MaxPool : NewBalancer(n)
    /\ healthCheckEnabled = TRUE
    /\ NoEwma
    /\ NoError
    /\ maxRetries \in 0..MaxRetries
    /\ performanceBasedRouting \in BOOLEAN
    /\ pc = [p \in Requests |-> "loop"]
    /\ attempts = [p \in Requests |-> 0]
    /\ currentEndpoint = [p \in Requests |-> Null]
    /\ startTime = [p \in Requests |-> 0]
    /\ lastError = [p \in Requests |-> NoFailure]
    /\ delay = [p \in Requests |-> 0]
    /\ outcome = [p \in Requests |-> Pending]
    /\ reply = [p \in Requests |-> NoFailure]
    /\ calls = [p \in Requests |-> NoCalls]
    /\ tried = [p \in Requests |-> << >>]
    /\ entry = [p \in Requests |-> FailureCounts]
    /\ solo = [p \in Requests |-> TRUE]
    /\ only500 = [p \in Requests |-> TRUE]
    /\ cancelled = [p \in Requests |-> FALSE]

\* handleRequestError that marks the endpoint failed whatever the failure is
handleRequestError_alwaysMarks(e, target) ==
    [shouldRetry |-> isRetryableError(e), endpointHealth |-> markEndpointFailed(target)]

\* handleRequestError: whether to retry, and the health records afterwards
handleRequestError(e, target) ==
    IF isRetryableError(e)
    THEN [shouldRetry |-> TRUE, endpointHealth |-> markEndpointFailed(target)]
    ELSE [shouldRetry |-> FALSE, endpointHealth |-> endpointHealth]

RECURSIVE Pow2(_)
Pow2(n) == IF n = 0 THEN 1 ELSE 2 * Pow2(n - 1)

\* calculateBackoffTime without the cap of 2000 ms
calculateBackoffTime_uncapped(attempt, jitter) == 100 * Pow2(attempt) + jitter

\* calculateBackoffTime(attempt), with the jitter drawn
calculateBackoffTime(attempt, jitter) ==
    LET baseDelay == IF 100 * Pow2(attempt) < 2000 THEN 100 * Pow2(attempt) ELSE 2000
    IN  baseDelay + jitter

\* delayedRetry that waits after the first attempt too
delayedRetryWaits_fromFirst(n) == n < maxRetries

\* delayedRetry that never waits
delayedRetryWaits_never(n) == FALSE

\* delayedRetry(attempts) waits
delayedRetryWaits(n) == n > 1 /\ n < maxRetries

\* The loop test with <= for <
loopContinues_offByOne(n) == n <= maxRetries

\* The loop test of a do-while: the body runs once whatever maxRetries is
loopContinues_atLeastOnce(n) == n = 0 \/ n < maxRetries

\* while (attempts < this.config.server.maxRetries)
loopContinues(n) == n < maxRetries

\* The head of the while loop, down to the await of the HTTP client: the loop test,
\* the selection of an endpoint and the sending of the attempt.
Attempt(p) ==
    /\ pc[p] = "loop"
    /\ IF loopContinues(attempts[p])
       THEN \E pickFastest \in BOOLEAN, randomIndex \in RandomIndexes :
                LET r == getNextEndpoint(performanceBasedRouting, pickFastest, randomIndex)
                IN  /\ currentIndex' = r.currentIndex
                    /\ calls' = [calls EXCEPT ![p].getNextEndpoint = @ + 1,
                                              ![p].client =
                                                  IF r.endpoint = Null THEN @ ELSE @ + 1]
                    /\ IF r.endpoint = Null
                       THEN /\ pc' = [pc EXCEPT ![p] = "done"]
                            /\ outcome' = [outcome EXCEPT ![p] = NoEndpointsAvailable]
                            /\ UNCHANGED <<attempts, currentEndpoint, startTime, tried>>
                       ELSE /\ pc' = [pc EXCEPT ![p] = "awaiting"]
                            /\ attempts' = [attempts EXCEPT ![p] = @ + 1]
                            /\ currentEndpoint' = [currentEndpoint EXCEPT ![p] = r.endpoint]
                            /\ startTime' = [startTime EXCEPT ![p] = now]
                            /\ tried' = [tried EXCEPT ![p] = Append(@, r.endpoint)]
                            /\ UNCHANGED outcome
       ELSE /\ pc' = [pc EXCEPT ![p] = "done"]
            /\ outcome' = [outcome EXCEPT ![p] = AllAttemptsFailed(lastError[p])]
            /\ UNCHANGED <<currentIndex, calls, attempts, currentEndpoint, startTime, tried>>
    /\ entry' = IF attempts[p] = 0 THEN [entry EXCEPT ![p] = FailureCounts] ELSE entry
    /\ solo' = IF loopContinues(attempts[p]) THEN Disturbed(p) ELSE solo
    /\ UNCHANGED <<healthCheckEnabled, endpoints, endpointHealth, now, callerVars, ewmaVars, errorVars>>
    /\ UNCHANGED <<cancelled, maxRetries, performanceBasedRouting, lastError, delay, reply, only500>>

\* The client-error return that passes the upstream body on even when it is empty
clientErrorResponse_noFallback(e) == Returned(e.status, e.headers, e.data)

\* return { status: error.response.status, headers: error.response.headers || {},
\*          data: error.response.data || { error: error.message } }
clientErrorResponse(e) ==
    Returned(e.status,
             IF e.headers = "" THEN "{}" ELSE e.headers,
             IF e.data = EmptyBody THEN ErrorMessageBody ELSE e.data)

\* The HTTP client resolves: the rest of the try block.
Succeed(p, response) ==
    LET responseTime == now - startTime[p]
        marked == markEndpointSuccess(currentEndpoint[p])
    IN  /\ endpointHealth' =
              IF currentEndpoint[p] \in DOMAIN marked
              THEN [marked EXCEPT ![currentEndpoint[p]] = updateResponseTime(@, responseTime)]
              ELSE marked
        /\ calls' = [calls EXCEPT ![p].markEndpointSuccess = @ + 1,
                                  ![p].recordResponseTime = @ + 1]
        /\ pc' = [pc EXCEPT ![p] = "done"]
        /\ outcome' = [outcome EXCEPT ![p] =
                           Returned(response.status, response.headers, response.data)]
        /\ UNCHANGED <<lastError, delay>>

\* The HTTP client rejects: the catch block.
Fail(p, e) ==
    LET handled == handleRequestError(e, currentEndpoint[p])
        marks == IF handled.shouldRetry THEN 1 ELSE 0
    IN  /\ endpointHealth' = handled.endpointHealth
        /\ lastError' = [lastError EXCEPT ![p] = e]
        /\ IF ~handled.shouldRetry /\ e.hasResponse
           THEN /\ pc' = [pc EXCEPT ![p] = "done"]
                /\ outcome' = [outcome EXCEPT ![p] = clientErrorResponse(e)]
                /\ calls' = [calls EXCEPT ![p].markEndpointFailed = @ + marks]
                /\ delay' = delay
           ELSE IF attempts[p] >= maxRetries
           THEN /\ pc' = [pc EXCEPT ![p] = "done"]
                /\ outcome' = [outcome EXCEPT ![p] = AllAttemptsFailed(e)]
                /\ calls' = [calls EXCEPT ![p].markEndpointFailed = @ + marks]
                /\ delay' = delay
           ELSE IF delayedRetryWaits(attempts[p])
           THEN \E jitter \in Jitters :
                    /\ pc' = [pc EXCEPT ![p] = "backoff"]
                    /\ delay' = [delay EXCEPT ![p] =
                                     calculateBackoffTime(attempts[p], jitter)]
                    /\ calls' = [calls EXCEPT ![p].markEndpointFailed = @ + marks,
                                              ![p].delayedRetry = @ + 1]
                    /\ outcome' = outcome
           ELSE /\ pc' = [pc EXCEPT ![p] = "loop"]
                /\ calls' = [calls EXCEPT ![p].markEndpointFailed = @ + marks,
                                          ![p].delayedRetry = @ + 1]
                /\ UNCHANGED <<delay, outcome>>

\* The attempt of call p settles with an answer of the upstream.
Settle(p, answer) ==
    /\ pc[p] = "awaiting"
    /\ reply' = [reply EXCEPT ![p] = answer]
    /\ IF answer.settled = "resolved" THEN Succeed(p, answer) ELSE Fail(p, answer)
    /\ UNCHANGED <<healthCheckEnabled, endpoints, currentIndex, now, callerVars, ewmaVars, errorVars>>
    /\ solo' = IF answer.settled = "resolved" \/ isRetryableError(answer)
               THEN Disturbed(p)
               ELSE solo
    /\ only500' = [only500 EXCEPT ![p] = @ /\ answer.status = 500]
    /\ UNCHANGED <<cancelled, maxRetries, performanceBasedRouting, attempts, currentEndpoint, startTime,
                   tried, entry>>

\* A backoff whose timer never resolves the promise: the call stays suspended
Retry_timerLost(p) ==
    /\ pc[p] = "backoff"
    /\ delay' = [delay EXCEPT ![p] = 0]
    /\ UNCHANGED <<lbVars, callerVars, ewmaVars, errorVars>>
    /\ UNCHANGED <<cancelled, maxRetries, performanceBasedRouting, pc, attempts,
                   currentEndpoint, startTime, lastError, outcome, reply, calls, tried,
                   entry, solo, only500>>

\* The timer of the backoff fires: back to the head of the loop.
Retry(p) ==
    /\ pc[p] = "backoff"
    /\ pc' = [pc EXCEPT ![p] = "loop"]
    /\ delay' = [delay EXCEPT ![p] = 0]
    /\ UNCHANGED <<lbVars, callerVars, ewmaVars, errorVars>>
    /\ UNCHANGED <<cancelled, maxRetries, performanceBasedRouting, attempts, currentEndpoint, startTime,
                   lastError, outcome, reply, calls, tried, entry, solo, only500>>

Next ==
    \/ \E p \in Requests : Attempt(p)
    \/ \E p \in Requests, answer \in Answers : Settle(p, answer)
    \/ \E p \in Requests : Retry(p)
    \/ Tick

Spec == Init /\ [][Next]_vars

\* One forwardRequest call at a time: a call begins when no other is in flight.
\* The pool is any prefix of the configured URLs.
InitSolo ==
    /\ \E n \in 0..Len(Urls) : NewBalancer(n)
    /\ healthCheckEnabled = TRUE
    /\ NoEwma
    /\ NoError
    /\ maxRetries \in 0..MaxRetries
    /\ performanceBasedRouting \in BOOLEAN
    /\ pc = [p \in Requests |-> "loop"]
    /\ attempts = [p \in Requests |-> 0]
    /\ currentEndpoint = [p \in Requests |-> Null]
    /\ startTime = [p \in Requests |-> 0]
    /\ lastError = [p \in Requests |-> NoFailure]
    /\ delay = [p \in Requests |-> 0]
    /\ outcome = [p \in Requests |-> Pending]
    /\ reply = [p \in Requests |-> NoFailure]
    /\ calls = [p \in Requests |-> NoCalls]
    /\ tried = [p \in Requests |-> << >>]
    /\ entry = [p \in Requests |-> FailureCounts]
    /\ solo = [p \in Requests |-> TRUE]
    /\ only500 = [p \in Requests |-> TRUE]
    /\ cancelled = [p \in Requests |-> FALSE]

SoloAttempt(p) ==
    /\ \A q \in Requests \ {p} : ~InFlight(q)
    /\ Attempt(p)

NextSolo ==
    \/ \E p \in Requests : SoloAttempt(p)
    \/ \E p \in Requests, answer \in Answers : Settle(p, answer)
    \/ \E p \in Requests : Retry(p)
    \/ Tick

SpecSolo == InitSolo /\ [][NextSolo]_vars

\* One forwardRequest call on its own, with more attempts allowed, and an inbound
\* caller that may go away while the call is suspended.
LoneRequests == {1}

InitLone ==
    /\ \E n \in 0..MaxPool : NewBalancer(n)
    /\ healthCheckEnabled = TRUE
    /\ NoEwma
    /\ NoError
    /\ maxRetries \in (0 - MaxNegativeRetries)..MaxLoneRetries
    /\ performanceBasedRouting \in BOOLEAN
    /\ pc = [p \in Requests |-> "loop"]
    /\ attempts = [p \in Requests |-> 0]
    /\ currentEndpoint = [p \in Requests |-> Null]
    /\ startTime = [p \in Requests |-> 0]
    /\ lastError = [p \in Requests |-> NoFailure]
    /\ delay = [p \in Requests |-> 0]
    /\ outcome = [p \in Requests |-> Pending]
    /\ reply = [p \in Requests |-> NoFailure]
    /\ calls = [p \in Requests |-> NoCalls]
    /\ tried = [p \in Requests |-> << >>]
    /\ entry = [p \in Requests |-> FailureCounts]
    /\ solo = [p \in Requests |-> TRUE]
    /\ only500 = [p \in Requests |-> TRUE]
    /\ cancelled = [p \in Requests |-> FALSE]

\* The inbound caller of call p disconnects while the call is suspended in its
\* network call or in its backoff delay. Nothing in the controller or the
\* forwarder listens for it: the call's own state is left as it is.
Cancel(p) ==
    /\ pc[p] \in {"awaiting", "backoff"}
    /\ ~cancelled[p]
    /\ cancelled' = [cancelled EXCEPT ![p] = TRUE]
    /\ UNCHANGED <<lbVars, callerVars, ewmaVars, errorVars>>
    /\ UNCHANGED <<maxRetries, performanceBasedRouting, pc, attempts, currentEndpoint,
                   startTime, lastError, delay, outcome, reply, calls, tried, entry, solo,
                   only500>>

NextLone ==
    \/ \E p \in LoneRequests : Attempt(p)
    \/ \E p \in LoneRequests, answer \in Answers : Settle(p, answer)
    \/ \E p \in LoneRequests : Retry(p)
    \/ \E p \in LoneRequests : Cancel(p)
    \/ Tick

SpecLone == InitLone /\ [][NextLone]_vars

\* The same call when every network call completes, every backoff timer fires and
\* the event loop runs every continuation that is ready.
FairLone ==
    /\ SpecLone
    /\ \A p \in LoneRequests :
           /\ WF_vars(Attempt(p))
           /\ WF_vars(\E answer \in Answers : Settle(p, answer))
           /\ WF_vars(Retry(p))

----------------------------------------------------------------------------
(* The proxy controller: what the client of the load balancer receives *)

\* const statusCode = error.response?.status || 500, of what forwardRequest threw;
\* status 0 stands for an error that carries no response
statusCode(o) == IF o.status # 0 THEN o.status ELSE 500

\* handleRequest that answers a failed forwardRequest with 502 Bad Gateway
handleRequest_badGateway(o) ==
    IF o.kind = "response"
    THEN [status |-> o.status, headers |-> o.headers, body |-> o.data]
    ELSE [status |-> 502, headers |-> "",
          body |-> [error |-> "Failed to process request", message |-> o.kind]]

\* handleRequest, given what forwardRequest returned or threw: the response headers
\* copied (the upstream headers modelled hold neither transfer-encoding nor
\* connection) and res.status(response.status).send(response.data), or, from the
\* catch block, res.status(statusCode).json({ error, message })
handleRequest(o) ==
    IF o.kind = "response"
    THEN [status |-> o.status, headers |-> o.headers, body |-> o.data]
    ELSE [status |-> statusCode(o), headers |-> "",
          body |-> [error |-> "Failed to process request", message |-> o.kind]]

----------------------------------------------------------------------------
(* One EndpointHealth object fed a sequence of response times *)

\* The samples passed: non-negative times in ms.
EwmaSamples == {0, 50, 100, 150, 250}

InitEwma ==
    /\ NoBalancer
    /\ NoCaller
    /\ health = NewEndpointHealth
    /\ samples = << >>
    /\ NoError
    /\ NoForwarder

\* health.updateResponseTime(responseTimeMs)
UpdateResponseTime(responseTimeMs) ==
    /\ Len(samples) < MaxSequence
    /\ health' = updateResponseTime(health, responseTimeMs)
    /\ samples' = Append(samples, responseTimeMs)
    /\ UNCHANGED <<lbVars, callerVars, errorVars, fwdVars>>

NextEwma == \E responseTimeMs \in EwmaSamples : UpdateResponseTime(responseTimeMs)

SpecEwma == InitEwma /\ [][NextEwma]_vars

----------------------------------------------------------------------------
(* One failure of the HTTP client, classified by isRetryableError *)

InitRetryable ==
    /\ NoBalancer
    /\ NoCaller
    /\ NoEwma
    /\ error \in Failures
    /\ classified = FALSE
    /\ retryable = FALSE
    /\ NoForwarder

\* this.isRetryableError(error)
Classify ==
    /\ ~classified
    /\ classified' = TRUE
    /\ retryable' = isRetryableError(error)
    /\ UNCHANGED <<lbVars, callerVars, ewmaVars, error, fwdVars>>

NextRetryable == Classify

SpecRetryable == InitRetryable /\ [][NextRetryable]_vars

----------------------------------------------------------------------------
(* Round-robin selection and endpoint health: SpecBalancer, SpecPerformance *)

\* The position (from 0) of an endpoint in the configured list.
IndexOf(endpoint) == CHOOSE i \in 0..(Len(endpoints) - 1) : endpoints[i + 1] = endpoint

\* The step is a getNextEndpoint call.
IsSelection == last'.op = "getNextEndpoint"

\* The call of the step is served by the round-robin policy.
ByRoundRobin ==
    /\ IsSelection
    /\ Len(endpoints) > 0
    /\ ~(last'.usePerformanceBasedRouting /\ hasResponseTimeData)

AnyHealthy == \E e \in Range(endpoints) : Healthy(e)

\* The first position, in cyclic order from the cursor, of a healthy endpoint.
FirstHealthy ==
    LET n == Len(endpoints)
        at(k) == (currentIndex + k) % n
    IN  at(CHOOSE k \in 0..(n - 1) :
               /\ Healthy(endpoints[at(k) + 1])
               /\ \A j \in 0..(k - 1) : ~Healthy(endpoints[at(j) + 1]))

\* C1: on a pool of N >= 1 endpoints that are all healthy, in a run of consecutive
\* getNextEndpoint(false) calls with no failure recorded in between, every call
\* returns the endpoint at the cursor and the next call the one after it in list
\* order: any N consecutive calls return N different endpoints (each exactly once)
\* and the (N+1)-th call returns what the first returned.
C1_RoundRobinFairness ==
    LET n == Len(endpoints)
    IN  /\ \A i \in 1..Len(rrRun) : rrRun[i].returned = endpoints[rrRun[i].cursor + 1]
        /\ \A i \in 1..(Len(rrRun) - 1) : rrRun[i + 1].cursor = (rrRun[i].cursor + 1) % n
        /\ \A i, j \in 1..Len(rrRun) :
               /\ (i < j /\ j - i < n) => rrRun[i].returned # rrRun[j].returned
               /\ (j - i = n) => rrRun[i].returned = rrRun[j].returned
        /\ Len(rrRun) >= n =>
               {rrRun[i].returned : i \in 1..n} = Range(endpoints)

\* N + 1 consecutive calls on a pool of three endpoints, one of which has failed before.
C1_Witness ==
    /\ Len(endpoints) = 3
    /\ Len(rrRun) = 4
    /\ rrRun[1].cursor = 1
    /\ \E e \in Range(endpoints) : endpointHealth[e].consecutiveFailures > 0

\* C2: whenever the endpoint list is non-empty, getNextEndpoint returns a member of
\* the list (never null), whatever the health of the endpoints and under both
\* policies.
C2_AlwaysRoutes ==
    (last.op = "getNextEndpoint" /\ Len(endpoints) > 0)
        => last.returned \in Range(endpoints)

\* A call with performance routing and response-time data while no endpoint is healthy.
C2_Witness ==
    /\ last.op = "getNextEndpoint"
    /\ last.usePerformanceBasedRouting
    /\ Len(endpoints) = 2
    /\ hasResponseTimeData
    /\ ~AnyHealthy
    /\ last.returned \in Range(endpoints)

\* C3: a call served by the round-robin policy while some endpoint is healthy returns
\* the first healthy endpoint in cyclic list order from the cursor, and leaves the
\* cursor one past it (mod N).
C3_FirstHealthyFromCursor ==
    [][(ByRoundRobin /\ AnyHealthy) =>
           /\ last'.returned = endpoints[FirstHealthy + 1]
           /\ Healthy(last'.returned)
           /\ currentIndex' = (FirstHealthy + 1) % Len(endpoints)]_vars

\* A call on three endpoints that returned the only healthy one.
C3_Witness ==
    /\ last.op = "getNextEndpoint"
    /\ ~last.usePerformanceBasedRouting
    /\ Len(endpoints) = 3
    /\ {e \in Range(endpoints) : Healthy(e)} = {last.returned}
    /\ currentIndex = (IndexOf(last.returned) + 1) % 3

\* C4: a call served by the round-robin policy while no endpoint is healthy returns
\* the endpoint at the cursor and advances the cursor by exactly one (mod N).
C4_LastResort ==
    [][(ByRoundRobin /\ ~AnyHealthy) =>
           /\ last'.returned = endpoints[currentIndex + 1]
           /\ currentIndex' = (currentIndex + 1) % Len(endpoints)]_vars

\* A call on three unhealthy endpoints that returned the last of the list.
C4_Witness ==
    /\ last.op = "getNextEndpoint"
    /\ ~last.usePerformanceBasedRouting
    /\ Len(endpoints) = 3
    /\ ~AnyHealthy
    /\ last.returned = endpoints[3]
    /\ currentIndex = 0

\* C5: an endpoint whose last failThreshold or more markEndpointFailed calls had no
\* markEndpointSuccess in between is unhealthy exactly while the time since its last
\* failure is at most recoveryTimeMs, and healthy again after that, with no
\* markEndpointSuccess call; with fewer such failures it is healthy.
C5_ThresholdAndRecovery ==
    \A e \in Range(endpoints) :
        Healthy(e) <=> ~(streak[e] >= failThreshold /\ now - failedAt[e] <= recoveryTimeMs)

\* An endpoint over the threshold that is healthy again because time has passed, and
\* one that is still unhealthy.
C5_Witness ==
    /\ \E e \in Range(endpoints) :
           streak[e] >= failThreshold /\ now - failedAt[e] > recoveryTimeMs /\ Healthy(e)
    /\ \E e \in Range(endpoints) :
           streak[e] >= failThreshold /\ now - failedAt[e] = recoveryTimeMs /\ ~Healthy(e)

\* C6: for every endpoint, consecutiveFailures is a natural number, the number of
\* markEndpointFailed calls on it since its last markEndpointSuccess (since
\* construction if there was none).
C6_FailureCount ==
    \A e \in Range(endpoints) :
        /\ endpointHealth[e].consecutiveFailures \in Nat
        /\ endpointHealth[e].consecutiveFailures = streak[e]

\* An endpoint that failed and was then reset by a success, beside one that failed
\* twice since its last success.
C6_Witness ==
    /\ last.op = "markEndpointSuccess"
    /\ \E e \in Range(endpoints) :
           failedAt[e] > 0 /\ endpointHealth[e].consecutiveFailures = 0
    /\ \E e \in Range(endpoints) : endpointHealth[e].consecutiveFailures = 2

----------------------------------------------------------------------------
(* Response-time smoothing: SpecEwma *)

Front(s) == SubSeq(s, 1, Len(s) - 1)

\* alpha * s + (1 - alpha) * avg for alpha = 0.3
Smoothed(s, avg) ==
    RatAdd(RatMul(<<3, 10>>, RatOfInt(s)), RatMul(<<7, 10>>, avg))

\* The average of a non-empty sequence when the first sample sets it and every
\* later sample smooths it.
RECURSIVE FirstThenSmoothed(_)
FirstThenSmoothed(s) ==
    IF Len(s) = 1 THEN RatOfInt(s[1])
    ELSE Smoothed(s[Len(s)], FirstThenSmoothed(Front(s)))

\* The average of a sequence when a sample that finds the average at 0 sets it and
\* every other sample smooths it.
RECURSIVE SetAtZeroElseSmoothed(_)
SetAtZeroElseSmoothed(s) ==
    IF s = << >> THEN RatZero
    ELSE LET avg == SetAtZeroElseSmoothed(Front(s))
         IN  IF avg = RatZero THEN RatOfInt(s[Len(s)]) ELSE Smoothed(s[Len(s)], avg)

\* C7 as stated: the first sample sets avgResponseTimeMs, every later sample s sets it
\* to 0.3*s + 0.7*(previous average), and [150, 250] yields 190.
C7_AsStated ==
    /\ samples # << >> => health.avgResponseTimeMs = FirstThenSmoothed(samples)
    /\ samples = <<150, 250>> => health.avgResponseTimeMs = RatOfInt(190)

\* C7, amended: a sample that finds avgResponseTimeMs at 0 (the first sample, or one
\* after only zero samples) sets it to that sample, every other sample s sets it to
\* 0.3*s + 0.7*(previous average), and [150, 250] yields 180.
C7_Smoothing ==
    /\ health.avgResponseTimeMs = SetAtZeroElseSmoothed(samples)
    /\ samples = <<150, 250>> => health.avgResponseTimeMs = RatOfInt(180)

\* 150 then 250, after a sample of 0 ms that left the average at 0.
C7_Witness ==
    /\ samples = <<0, 150, 250>>
    /\ health.avgResponseTimeMs = RatOfInt(180)

----------------------------------------------------------------------------
(* Retryability: SpecRetryable *)

ConnectionLevel(e) ==
    e.code \in {"ECONNREFUSED", "ECONNABORTED", "ECONNRESET", "ETIMEDOUT"}

RetryableStatus(e) ==
    e.hasResponse /\ (e.status \in 500..599 \/ e.status = 429 \/ e.status = 408)

\* What the claim lists as retryable.
ListedRetryable(e) ==
    \/ ConnectionLevel(e)
    \/ RetryableStatus(e)
    \/ ~e.hasResponse

\* C8 as stated: isRetryableError returns true for what is listed, and false exactly
\* for the failures that carry another 4xx status.
C8_AsStated ==
    classified =>
        /\ ListedRetryable(error) => retryable
        /\ ~retryable <=> (error.hasResponse /\ error.status \in 400..499
                              /\ error.status \notin {408, 429})

\* C8, amended: isRetryableError returns true for what is listed, and false exactly
\* for the failures that carry a response of any other status: the other 4xx, and
\* also every status outside 4xx and 5xx that the client raises, such as 304.
C8_Classification ==
    classified =>
        /\ ListedRetryable(error) => retryable
        /\ ~retryable <=> (error.hasResponse /\ ~ConnectionLevel(error)
                              /\ ~RetryableStatus(error))

\* A 304 Not Modified, classified as not retryable.
C8_Witness ==
    /\ classified
    /\ error = StatusFailure(304)
    /\ ~retryable

----------------------------------------------------------------------------
(* Forwarding: Spec *)

\* The step in which the attempt of call p settles; reply'[p] is what it settled with.
Settles(p) == pc[p] = "awaiting" /\ pc'[p] # "awaiting"

\* The step records success and one response-time sample against the endpoint of
\* the attempt, and call p returns the reply's status, headers and body unchanged.
SuccessPath(p) ==
    LET e == currentEndpoint[p]
        sample == now - startTime[p]
        avg == endpointHealth[e].avgResponseTimeMs
    IN  /\ endpointHealth'[e].consecutiveFailures = 0
        /\ endpointHealth'[e].avgResponseTimeMs =
               IF avg = RatZero THEN RatOfInt(sample) ELSE Smoothed(sample, avg)
        /\ calls'[p].markEndpointSuccess = calls[p].markEndpointSuccess + 1
        /\ calls'[p].recordResponseTime = calls[p].recordResponseTime + 1
        /\ pc'[p] = "done"
        /\ outcome'[p].kind = "response"
        /\ outcome'[p].status = reply'[p].status
        /\ outcome'[p].headers = reply'[p].headers
        /\ outcome'[p].data = reply'[p].data

\* C9 as stated: whenever an attempt completes with an upstream response whose
\* status is in 2xx-3xx, forwardRequest records success and one response-time sample
\* against the endpoint of the attempt and returns the response unchanged.
C9_AsStated ==
    [][\A p \in Requests :
          (Settles(p) /\ reply'[p].hasResponse /\ reply'[p].status \in 200..399)
              => SuccessPath(p)]_vars

\* C9, amended: whenever an attempt completes with an upstream response whose status
\* is in 2xx (the responses the HTTP client resolves with), forwardRequest records
\* success (consecutiveFailures reset to 0) and one response-time sample against the
\* endpoint of the attempt and returns the response's status, headers and body
\* unchanged.
C9_SuccessPath ==
    [][\A p \in Requests :
          (Settles(p) /\ reply'[p].hasResponse /\ reply'[p].status \in 200..299)
              => SuccessPath(p)]_vars

\* A call whose first attempt failed and whose second, to the same and only
\* endpoint, was answered 200: the failure count is back at 0, and the call has
\* returned the 200.
C9_Witness ==
    \E p \in Requests :
        /\ Len(endpoints) = 1
        /\ pc[p] = "done"
        /\ attempts[p] = 2
        /\ calls[p].markEndpointFailed = 1
        /\ reply[p] = Resolved(200, Body)
        /\ outcome[p] = Returned(200, Headers, Body)
        /\ endpointHealth[currentEndpoint[p]].consecutiveFailures = 0

\* A 4xx status that is not retried.
NonRetryable4xx(status) == status \in (400..499) \ {408, 429}

ReturnedClientError(p) ==
    /\ pc[p] = "done"
    /\ outcome[p].kind = "response"
    /\ reply[p].settled = "rejected"

\* C11 as stated: for every non-retryable upstream error response, also one with an
\* empty body, the record forwardRequest returns has the status, headers and body of
\* the upstream response.
C11_AsStated ==
    \A p \in Requests :
        ReturnedClientError(p) =>
            /\ outcome[p].status = reply[p].status
            /\ outcome[p].headers = reply[p].headers
            /\ outcome[p].data = reply[p].data

\* C11, amended: the record has the status and headers of the upstream response, and
\* its body when that is not empty; for an empty body the record's body is
\* { error: <the failure's message> }.
C11_ClientErrorReturned ==
    \A p \in Requests :
        ReturnedClientError(p) =>
            /\ outcome[p].status = reply[p].status
            /\ outcome[p].headers = reply[p].headers
            /\ outcome[p].data =
                   IF reply[p].data = EmptyBody THEN ErrorMessageBody ELSE reply[p].data

\* A call has returned a 404 whose body was empty, and another (or the same) a 404
\* with its body.
C11_Witness ==
    /\ \E p \in Requests :
           /\ ReturnedClientError(p)
           /\ reply[p] = ResponseFailure(404, EmptyBody)
           /\ outcome[p].data = ErrorMessageBody
    /\ \E p \in Requests :
           /\ ReturnedClientError(p)
           /\ reply[p] = ResponseFailure(404, Body)
           /\ outcome[p].data = Body

\* The step in which call p, whose first attempt went to A and failed with a 500 and
\* whose second went to another endpoint B, is answered 200 by B.
RetryAndRecover(p) ==
    /\ Settles(p)
    /\ Len(tried[p]) = 2
    /\ tried[p][1] # tried[p][2]
    /\ lastError[p].hasResponse /\ lastError[p].status = 500
    /\ reply'[p].settled = "resolved" /\ reply'[p].status = 200

\* forwardRequest returns B's response, A's consecutiveFailures is one more than when
\* the call began, B's is 0, and the call has invoked getNextEndpoint twice.
Recovered(p) ==
    LET A == tried[p][1]
        B == tried[p][2]
    IN  /\ pc'[p] = "done"
        /\ outcome'[p] = Returned(reply'[p].status, reply'[p].headers, reply'[p].data)
        /\ endpointHealth'[A].consecutiveFailures = entry[p][A] + 1
        /\ endpointHealth'[B].consecutiveFailures = 0
        /\ calls'[p].getNextEndpoint = 2

\* C12 as stated: if the first attempt of a call goes to A and fails with a 500 and
\* the second goes to B and returns 200, the call returns B's response, A's
\* consecutiveFailures has increased by exactly 1, B's is 0, and getNextEndpoint was
\* invoked exactly twice by the call.
C12_AsStated ==
    [][\A p \in Requests : RetryAndRecover(p) => Recovered(p)]_vars

\* C12, amended: the same, for a call during which no other call has used the
\* balancer.
C12_RetryAndRecover ==
    [][\A p \in Requests : (solo[p] /\ RetryAndRecover(p)) => Recovered(p)]_vars

\* A call alone on the balancer, after another had left a failure on A: its first
\* attempt failed with a 500 on A, its second was answered 200 by B.
C12_Witness ==
    \E p \in Requests :
        /\ pc[p] = "done"
        /\ solo[p]
        /\ Len(tried[p]) = 2
        /\ tried[p][1] # tried[p][2]
        /\ lastError[p] = ResponseFailure(500, Body)
        /\ outcome[p] = Returned(200, Headers, Body)
        /\ entry[p][tried[p][1]] = 1
        /\ endpointHealth[tried[p][1]].consecutiveFailures = 2
        /\ endpointHealth[tried[p][2]].consecutiveFailures = 0

\* The number of attempts of call p that went to endpoint e.
TimesTried(p, e) == Cardinality({i \in 1..Len(tried[p]) : tried[p][i] = e})

\* The step that ends a call with maxRetries = 3 on a non-empty pool, all of whose
\* attempts were answered 500, while nothing else used the balancer.
AllAnswered500(p) ==
    /\ Settles(p)
    /\ solo[p]
    /\ maxRetries = 3
    /\ Len(endpoints) > 0
    /\ attempts[p] = 3
    /\ only500'[p]

\* The call throws the all-attempts-exhausted error after 3 getNextEndpoint calls.
ExhaustedAfterThree(p) ==
    /\ pc'[p] = "done"
    /\ outcome'[p] = AllAttemptsFailed(reply'[p])
    /\ calls'[p].getNextEndpoint = 3
    /\ calls'[p].client = 3

\* C13 as stated: with maxRetries = 3, a non-empty pool and every attempt answered
\* 500, a call with no other in flight throws the all-attempts-exhausted error after
\* exactly 3 getNextEndpoint calls, and every endpoint chosen during the call has its
\* consecutiveFailures incremented by exactly 1.
C13_AsStated ==
    [][\A p \in Requests :
          AllAnswered500(p) =>
              /\ ExhaustedAfterThree(p)
              /\ \A e \in Range(tried[p]) :
                     endpointHealth'[e].consecutiveFailures = entry[p][e] + 1]_vars

\* C13, amended: ... and every endpoint chosen during the call has its
\* consecutiveFailures incremented by the number of attempts that went to it: by
\* exactly 1 when the three attempts went to three different endpoints.
C13_Exhaustion ==
    [][\A p \in Requests :
          AllAnswered500(p) =>
              /\ ExhaustedAfterThree(p)
              /\ \A e \in Range(tried[p]) :
                     endpointHealth'[e].consecutiveFailures
                         = entry[p][e] + TimesTried(p, e)
              /\ Cardinality(Range(tried[p])) = 3 =>
                     \A e \in Range(tried[p]) :
                         endpointHealth'[e].consecutiveFailures = entry[p][e] + 1]_vars

\* A call on a pool of three has thrown after three attempts answered 500 that went to
\* three endpoints, each with one failure more; the other call has not begun.
C13_Witness ==
    \E p \in Requests :
        /\ pc[p] = "done"
        /\ outcome[p] = AllAttemptsFailed(ResponseFailure(500, Body))
        /\ only500[p]
        /\ maxRetries = 3
        /\ Cardinality(Range(tried[p])) = 3
        /\ \A q \in Requests \ {p} : pc[q] = "loop" /\ attempts[q] = 0
        /\ \A e \in Range(tried[p]) :
               endpointHealth[e].consecutiveFailures = entry[p][e] + 1

\* Every getNextEndpoint call returns null, whatever the policy and the random draws.
AlwaysNull ==
    \A usePerformanceBasedRouting \in BOOLEAN, pickFastest \in BOOLEAN,
       randomIndex \in RandomIndexes :
        getNextEndpoint(usePerformanceBasedRouting, pickFastest, randomIndex).endpoint = Null

\* The selector is as constructed: the cursor at 0, no health record.
SelectorUntouched == currentIndex = 0 /\ DOMAIN endpointHealth = {}

\* C14 as stated: a load balancer with zero endpoints returns null from every
\* getNextEndpoint call, and forwardRequest against it throws the
\* no-endpoints-available error without a network call and without changing the
\* selector's state.
C14_AsStated ==
    Len(endpoints) = 0 =>
        /\ AlwaysNull
        /\ SelectorUntouched
        /\ \A p \in Requests :
               /\ calls[p].client = 0
               /\ pc[p] = "done" => outcome[p] = NoEndpointsAvailable

\* C14, amended: the same for maxRetries >= 1; with maxRetries = 0 forwardRequest does
\* not reach the selection and throws the all-attempts-exhausted error instead.
C14_EmptyPool ==
    Len(endpoints) = 0 =>
        /\ AlwaysNull
        /\ SelectorUntouched
        /\ \A p \in Requests :
               /\ calls[p].client = 0
               /\ attempts[p] = 0
               /\ pc[p] \in {"loop", "done"}
               /\ (pc[p] = "done" /\ maxRetries >= 1) =>
                      (outcome[p] = NoEndpointsAvailable /\ calls[p].getNextEndpoint = 1)
               /\ (pc[p] = "done" /\ maxRetries = 0) =>
                      (outcome[p] = AllAttemptsFailed(NoFailure)
                          /\ calls[p].getNextEndpoint = 0)

\* Both calls against an empty pool have thrown the no-endpoints-available error, under
\* performance routing.
C14_Witness ==
    /\ Len(endpoints) = 0
    /\ performanceBasedRouting
    /\ \A p \in Requests :
           /\ pc[p] = "done"
           /\ outcome[p] = NoEndpointsAvailable
           /\ calls[p].getNextEndpoint = 1

\* C15: a forwardRequest call makes at most maxRetries getNextEndpoint calls and at
\* most maxRetries network calls, and its attempts counter never exceeds maxRetries,
\* whatever the upstream answers.
C15_BoundedRetry ==
    \A p \in Requests :
        /\ calls[p].getNextEndpoint <= maxRetries
        /\ calls[p].client <= maxRetries
        /\ attempts[p] <= maxRetries

\* A call has used all of its 3 attempts: the bound is reached, with 3 selections and
\* 3 network calls.
C15_Witness ==
    \E p \in Requests :
        /\ maxRetries = 3
        /\ pc[p] = "done"
        /\ attempts[p] = 3
        /\ calls[p].getNextEndpoint = 3
        /\ calls[p].client = 3

\* The three outcomes of a completed call.
OutcomeKinds ==
    { "response",
      "No endpoints available to process request",
      "Failed to process request after maxRetries attempts" }

\* C16: every completed forwardRequest call has exactly one of three outcomes: a
\* response record, the no-endpoints-available error or the all-attempts-exhausted
\* error. A failure of the HTTP client leaves the call only as a response record with
\* the failure's status (when it carries a response and is not retryable) or inside
\* the all-attempts-exhausted error.
C16_OutcomeContract ==
    \A p \in Requests :
        /\ pc[p] = "done" <=> outcome[p].kind # "pending"
        /\ pc[p] = "done" =>
              /\ outcome[p].kind \in OutcomeKinds
              /\ outcome[p].kind = "response" =>
                     /\ reply[p].hasResponse
                     /\ outcome[p].status = reply[p].status
                     /\ reply[p].settled = "rejected" => ~isRetryableError(reply[p])
              /\ outcome[p].kind = "No endpoints available to process request" =>
                     (Len(endpoints) = 0 /\ reply[p] = NoFailure)
              /\ outcome[p].kind = "Failed to process request after maxRetries attempts" =>
                     /\ outcome[p].lastError = reply[p]
                     /\ reply[p].settled # "resolved"
              /\ reply[p].settled = "rejected" =>
                     \/ outcome[p].kind = "response" /\ reply[p].hasResponse
                     \/ /\ outcome[p].kind
                             = "Failed to process request after maxRetries attempts"
                        /\ outcome[p].lastError = reply[p]

\* One call has thrown the all-attempts-exhausted error around a connection failure
\* that carries no response, another has returned the upstream's 404.
C16_Witness ==
    \E p, q \in Requests :
        /\ pc[p] = "done"
        /\ outcome[p] = AllAttemptsFailed(NetworkFailure("ECONNREFUSED"))
        /\ pc[q] = "done"
        /\ outcome[q] = Returned(404, Headers, Body)

\* C17: after a retryable failure on an endpoint, the next attempt of the same call
\* goes to a different endpoint. A call makes a further attempt only after a
\* retryable failure, so this is: no two successive attempts of a call go to the same
\* endpoint. A pool of one endpoint has no different endpoint to offer; the claim is
\* taken on pools of two or more.
C17_RetryElsewhere ==
    Len(endpoints) >= 2 =>
        \A p \in Requests :
            \A i \in 2..Len(tried[p]) : tried[p][i] # tried[p][i - 1]

----------------------------------------------------------------------------
(* The policies of getNextEndpoint: SpecPerformance *)

\* Some endpoint, healthy or not, has a non-zero avgResponseTimeMs.
SomeResponseTime ==
    \E e \in Range(endpoints) : endpointHealth[e].avgResponseTimeMs # RatZero

\* The last resort of the round-robin policy: the endpoint at the cursor, and the
\* cursor one further.
LastResort ==
    /\ last'.returned = endpoints[currentIndex + 1]
    /\ currentIndex' = (currentIndex + 1) % Len(endpoints)

\* What a call served by the round-robin policy does.
ServedByRoundRobin ==
    IF AnyHealthy
    THEN /\ last'.returned = endpoints[FirstHealthy + 1]
         /\ currentIndex' = (FirstHealthy + 1) % Len(endpoints)
    ELSE LastResort

\* What a call served by the performance-weighted policy does: a healthy endpoint and
\* the cursor where it was, or the round-robin policy when none is healthy.
ServedByPerformance ==
    IF AnyHealthy
    THEN /\ Healthy(last'.returned)
         /\ currentIndex' = currentIndex
    ELSE LastResort

\* C18: getNextEndpoint on a non-empty pool uses the performance-weighted policy if
\* and only if usePerformanceBasedRouting is true and some endpoint, healthy or not,
\* has a non-zero avgResponseTimeMs; otherwise it uses the round-robin policy.
C18_PolicyDispatch ==
    [][(IsSelection /\ Len(endpoints) > 0) =>
           IF last'.usePerformanceBasedRouting /\ SomeResponseTime
           THEN ServedByPerformance
           ELSE ServedByRoundRobin]_vars

\* A call with performance routing on two endpoints of which only the unhealthy one
\* has a response time: the healthy one was returned, and the cursor (at 1, on the
\* unhealthy one) was not moved.
C18_Witness ==
    /\ last.op = "getNextEndpoint"
    /\ last.usePerformanceBasedRouting
    /\ Len(endpoints) = 2
    /\ ~Healthy(endpoints[2]) /\ endpointHealth[endpoints[2]].avgResponseTimeMs # RatZero
    /\ Healthy(endpoints[1]) /\ endpointHealth[endpoints[1]].avgResponseTimeMs = RatZero
    /\ last.returned = endpoints[1]
    /\ currentIndex = 1

\* The weight of an endpoint: 1 / avgResponseTimeMs, or 1 when that is 0.
InverseTime(e) ==
    LET avg == endpointHealth[e].avgResponseTimeMs
    IN  IF avg = RatZero THEN <<1, 1>> ELSE <<avg[2], avg[1]>>

\* The healthy endpoints of maximum weight.
Heaviest ==
    {e \in Range(endpoints) :
        /\ Healthy(e)
        /\ \A f \in Range(endpoints) :
               Healthy(f) => ~RatLess(InverseTime(e), InverseTime(f))}

\* The first of them in list order.
FirstHeaviest == endpoints[Min({IndexOf(e) : e \in Heaviest}) + 1]

\* C19: the performance-weighted policy, when some endpoint is healthy, returns a
\* healthy endpoint; in its deterministic branch it returns the healthy endpoint of
\* maximum weight (1 / avgResponseTimeMs, or 1 for 0), the first in list order among
\* equals; when every healthy endpoint has a response time, that is one of lowest
\* avgResponseTimeMs.
C19_PerformancePolicy ==
    (Len(endpoints) > 0 /\ AnyHealthy) =>
        /\ \A pickFastest \in BOOLEAN, randomIndex \in RandomIndexes :
               Healthy(getEndpointBasedOnPerformance(pickFastest, randomIndex).endpoint)
        /\ \A randomIndex \in RandomIndexes :
               LET e == getEndpointBasedOnPerformance(TRUE, randomIndex).endpoint
               IN  /\ e = FirstHeaviest
                   /\ (\A f \in Range(endpoints) :
                          Healthy(f) => endpointHealth[f].avgResponseTimeMs # RatZero)
                      => \A f \in Range(endpoints) :
                             Healthy(f) =>
                                 ~RatLess(endpointHealth[f].avgResponseTimeMs,
                                          endpointHealth[e].avgResponseTimeMs)

\* A call with performance routing on two healthy endpoints, the second the faster,
\* has returned the second.
C19_Witness ==
    /\ last.op = "getNextEndpoint"
    /\ last.usePerformanceBasedRouting
    /\ Len(endpoints) = 2
    /\ Healthy(endpoints[1]) /\ Healthy(endpoints[2])
    /\ endpointHealth[endpoints[1]].avgResponseTimeMs = RatOfInt(20)
    /\ endpointHealth[endpoints[2]].avgResponseTimeMs = RatOfInt(10)
    /\ FirstHeaviest = endpoints[2]
    /\ last.returned = endpoints[2]

\* C20: with performance routing requested, response-time data present and no
\* endpoint healthy, getNextEndpoint returns the endpoint at currentIndex and advances
\* currentIndex by one, as the last resort of the round-robin policy does.
C20_PerformanceFallback ==
    [][(/\ IsSelection
        /\ Len(endpoints) > 0
        /\ last'.usePerformanceBasedRouting
        /\ SomeResponseTime
        /\ ~AnyHealthy) => LastResort]_vars

\* Such a call on two unhealthy endpoints with the cursor at 1: it returned the second
\* endpoint and the cursor is back at 0.
C20_Witness ==
    /\ last.op = "getNextEndpoint"
    /\ last.usePerformanceBasedRouting
    /\ Len(endpoints) = 2
    /\ SomeResponseTime
    /\ ~AnyHealthy
    /\ last.returned = endpoints[2]
    /\ currentIndex = 0
----------------------------------------------------------------------------
(* Calls that name an endpoint outside the pool: SpecPerformance *)

\* The step is one of the three health calls, made with an identity not in the pool.
UnknownEndpointCall ==
    \/ MarkEndpointSuccess(UnknownEndpoint)
    \/ MarkEndpointFailed(UnknownEndpoint)
    \/ \E responseTimeMs \in SampleTimes :
           RecordResponseTime(UnknownEndpoint, responseTimeMs)

\* C21: markEndpointSuccess, markEndpointFailed and recordResponseTime called with an
\* endpoint identity that is not in the pool return normally (the step is taken) and
\* leave the cursor and every endpoint's health record as they were; no record is
\* opened for the unknown identity.
C21_UnknownEndpointNoOp ==
    [][UnknownEndpointCall =>
           /\ currentIndex' = currentIndex
           /\ endpointHealth' = endpointHealth
           /\ DOMAIN endpointHealth' = Range(endpoints)]_vars

\* recordResponseTime has just been called, and the pool has an endpoint with a
\* failure on record, yet no endpoint has a response time: the call named an
\* endpoint outside the pool.
C21_Witness ==
    /\ last.op = "recordResponseTime"
    /\ \E e \in Range(endpoints) : endpointHealth[e].consecutiveFailures > 0
    /\ \A e \in Range(endpoints) : sampleCount[e] = 0
----------------------------------------------------------------------------
(* Response times and failures: Spec *)

\* The average response time on record for an endpoint changes in the step.
AverageChanges(e) ==
    endpointHealth'[e].avgResponseTimeMs # endpointHealth[e].avgResponseTimeMs

\* C22: across any sequence of forwardRequest calls, an endpoint's avgResponseTimeMs
\* changes only in a step in which an attempt against that endpoint completes
\* successfully; an attempt that ends in a retryable failure or in a proxied client
\* error leaves every avgResponseTimeMs as it was.
C22_AverageOnlyOnSuccess ==
    [][/\ \A e \in DOMAIN endpointHealth :
              AverageChanges(e) =>
                  \E p \in Requests : /\ Settles(p)
                                      /\ reply'[p].settled = "resolved"
                                      /\ currentEndpoint[p] = e
       /\ \A p \in Requests :
              (Settles(p) /\ reply'[p].settled = "rejected") =>
                  \A e \in DOMAIN endpointHealth : ~AverageChanges(e)]_vars

\* An endpoint has an average response time from one call's successful attempt,
\* and two failures on record from another call's attempts, the last of them
\* retryable.
C22_Witness ==
    \E p \in Requests, q \in Requests :
        /\ p # q
        /\ pc[p] = "done" /\ reply[p].settled = "resolved"
        /\ pc[q] # "awaiting" /\ reply[q].status = 500
        /\ currentEndpoint[q] = currentEndpoint[p]
        /\ endpointHealth[currentEndpoint[p]].avgResponseTimeMs # RatZero
        /\ endpointHealth[currentEndpoint[p]].consecutiveFailures = 2
----------------------------------------------------------------------------
(* Backoff: SpecLone *)

\* min(100 * 2^n, 2000)
CappedExponential(n) == IF 100 * (2 ^ n) < 2000 THEN 100 * (2 ^ n) ELSE 2000

\* C23: every backoff delay a call waits for equals min(100 * 2^attempts, 2000) ms
\* plus a jitter in [0, 100) ms, where attempts is the number of attempts the call
\* has made so far; no delay exceeds 2100 ms.
C23_BackoffBound ==
    \A p \in Requests :
        pc[p] = "backoff" =>
            /\ delay[p] - CappedExponential(attempts[p]) \in 0..99
            /\ delay[p] <= 2100

\* A call waits 2099 ms after its fifth attempt: the cap of 2000 ms with the
\* largest jitter.
C23_Witness ==
    \E p \in Requests :
        /\ pc[p] = "backoff"
        /\ attempts[p] = 5
        /\ delay[p] = 2099
\* The attempt of call p fails in the step and the call goes on to another attempt.
FailsAndRetries(p) == Settles(p) /\ pc'[p] # "done"

\* Call p starts waiting for a backoff delay in the step.
BacksOff(p) == pc'[p] = "backoff" /\ delay'[p] > 0

\* The backoff delay of call p ends in the step: the call is back at the head of its
\* loop, with no attempt made meanwhile.
DelayElapses(p) ==
    /\ pc'[p] = "loop"
    /\ attempts'[p] = attempts[p]
    /\ calls'[p] = calls[p]

----------------------------------------------------------------------------
(* Concurrent calls on the one cursor: Spec *)

\* Call p calls getNextEndpoint in the step.
Selects(p) == calls'[p].getNextEndpoint = calls[p].getNextEndpoint + 1

\* A getNextEndpoint call in this state is served by the round-robin policy.
RoundRobinCall ==
    /\ Len(endpoints) > 0
    /\ ~(performanceBasedRouting /\ SomeResponseTime)

\* C25: under any interleaving of forwardRequest calls, every round-robin
\* getNextEndpoint call on a non-empty pool is one step that reads the cursor and
\* leaves it one past the endpoint it returns; on a healthy pool it returns the
\* endpoint at the cursor, so that the cursor advances by exactly one. No step
\* holds two selections and nothing else moves the cursor: two calls never return
\* an endpoint computed from the same cursor value, and no endpoint is skipped or
\* selected twice within one scan of a healthy pool.
C25_AtomicSelection ==
    [][/\ \A p \in Requests :
              (Selects(p) /\ RoundRobinCall) =>
                  /\ currentIndex' = (IndexOf(currentEndpoint'[p]) + 1) % Len(endpoints)
                  /\ AllHealthy => currentEndpoint'[p] = endpoints[currentIndex + 1]
       /\ currentIndex' # currentIndex => \E p \in Requests : Selects(p)
       /\ \A p \in Requests, q \in Requests : (Selects(p) /\ Selects(q)) => p = q]_vars

\* Two calls in flight at once on a healthy pool of two under round robin: each
\* has selected once, they hold different endpoints, and the cursor is back at 0.
C25_Witness ==
    /\ Len(endpoints) = 2
    /\ ~performanceBasedRouting
    /\ \A p \in Requests : pc[p] = "awaiting" /\ calls[p].getNextEndpoint = 1
    /\ currentEndpoint[1] # currentEndpoint[2]
    /\ currentIndex = 0
----------------------------------------------------------------------------
(* The inbound caller goes away: SpecLone *)

\* What must stop after a cancellation: the counts of the selections, network calls
\* and health marks of a call.
Effects(c) ==
    <<c.getNextEndpoint, c.client, c.markEndpointSuccess, c.markEndpointFailed>>

\* C26: if the inbound caller disconnects while a forwardRequest call is suspended
\* in a network call or in a backoff delay, that call issues no further
\* getNextEndpoint call, no further network call and no further markEndpointFailed
\* or markEndpointSuccess after the cancellation.
C26_Cancellation ==
    [][\A p \in Requests : cancelled[p] => Effects(calls'[p]) = Effects(calls[p])]_vars
----------------------------------------------------------------------------
(* What the client receives when forwarding fails: Spec *)

\* forwardRequest of call p has thrown.
Threw(p) == pc[p] = "done" /\ outcome[p].kind # "response"

C28_GatewayStatus ==
    \A p \in Requests :
        (Threw(p) /\ attempts[p] > 0 /\ only500[p]) =>
            /\ handleRequest(outcome[p]).status = 502
            /\ handleRequest(outcome[p]).body.error = "Failed to process request"
----------------------------------------------------------------------------
(* The health report and the healthCheck.enabled setting: SpecHealth *)

\* What a report says of endpoint e, as a caller counting its own calls expects it.
ReportsCurrent(report, e) ==
    /\ report[e].healthy =
           ~(streak[e] >= failThreshold /\ now - failedAt[e] <= recoveryTimeMs)
    /\ report[e].consecutiveFailures = streak[e]

\* C29: in every reachable state, getEndpointHealth returns exactly one entry per
\* configured endpoint (the key set is the endpoint set fixed at construction), and
\* each entry's healthy and consecutiveFailures fields equal the endpoint's current
\* isHealthy value and failure count.
C29_HealthReport ==
    /\ DOMAIN getEndpointHealth = Range(SubSeq(Urls, 1, Len(endpoints)))
    /\ \A e \in Range(endpoints) : ReportsCurrent(getEndpointHealth, e)
    /\ last.op = "getEndpointHealth" =>
           /\ DOMAIN last.returned = Range(endpoints)
           /\ \A e \in Range(endpoints) : ReportsCurrent(last.returned, e)

\* A report just returned for a pool of two: one endpoint over the threshold and
\* reported healthy again because its recovery time has passed, the other reported
\* unhealthy.
C29_Witness ==
    /\ last.op = "getEndpointHealth"
    /\ Len(endpoints) = 2
    /\ \E e \in Range(endpoints), f \in Range(endpoints) :
           /\ last.returned[e].healthy /\ last.returned[e].consecutiveFailures >= failThreshold
           /\ ~last.returned[f].healthy

\* C30: when healthCheck.enabled is false, no endpoint is ever treated as unhealthy
\* or skipped by endpoint selection, whatever its failure count: every endpoint is
\* healthy, is reported healthy, and a round-robin selection returns the endpoint
\* at the cursor.
C30_DisabledNeverUnhealthy ==
    ~healthCheckEnabled =>
        /\ \A e \in Range(endpoints) : Healthy(e) /\ getEndpointHealth[e].healthy
        /\ Len(endpoints) > 0 => getEndpointRoundRobin.endpoint = endpoints[currentIndex + 1]
----------------------------------------------------------------------------
(* Termination: FairLone *)

\* Call p has returned or thrown: succeeded or client error returned (a response
\* record), exhausted, or no endpoints available.
Terminal(p) == pc[p] = "done" /\ outcome[p].kind \in OutcomeKinds

\* C31: when every network call eventually completes and every backoff timer
\* eventually fires, every forwardRequest call eventually reaches a terminal state
\* (succeeded, client error returned, exhausted or no endpoints available), and
\* after reaching it performs no selection, network call or health update.
C31_Termination ==
    /\ \A p \in LoneRequests : <>Terminal(p)
    /\ [][\A p \in Requests :
              Terminal(p) => /\ Terminal(p)'
                             /\ calls'[p] = calls[p]
                             /\ outcome'[p] = outcome[p]]_vars

\* A call allowed six attempts has made them all, waited four times, and thrown
\* the all-attempts-exhausted error.
C31_Witness ==
    \E p \in Requests :
        /\ Terminal(p)
        /\ attempts[p] = MaxLoneRetries
        /\ calls[p].delayedRetry = MaxLoneRetries - 1
        /\ outcome[p].kind = "Failed to process request after maxRetries attempts"
----------------------------------------------------------------------------
(* Marking the endpoint of a failed attempt: Spec *)

\* The attempt of call p ends in the step in a retryable failure.
FailsRetryably(p) ==
    /\ Settles(p)
    /\ reply'[p].settled = "rejected"
    /\ ListedRetryable(reply'[p])

\* C32: each attempt that ends in a retryable failure calls markEndpointFailed
\* exactly once, on the endpoint chosen for that attempt, the final attempt before
\* exhaustion included: that endpoint's consecutiveFailures increases by 1 and its
\* lastFailureTime is set to now, while the cursor and every other endpoint's health
\* record are unchanged.
C32_MarksTheFailedEndpoint ==
    [][\A p \in Requests :
          FailsRetryably(p) =>
              LET e == currentEndpoint[p]
              IN  /\ calls'[p].markEndpointFailed = calls[p].markEndpointFailed + 1
                  /\ endpointHealth'[e] =
                         [endpointHealth[e] EXCEPT !.consecutiveFailures = @ + 1,
                                                   !.lastFailureTime = now]
                  /\ \A f \in DOMAIN endpointHealth \ {e} :
                         endpointHealth'[f] = endpointHealth[f]
                  /\ currentIndex' = currentIndex]_vars

\* A call on a pool of two has thrown the all-attempts-exhausted error after three
\* attempts, each marked, the last of them just now on an endpoint whose other
\* neighbour has fewer failures on record.
C32_Witness ==
    \E p \in Requests :
        /\ Len(endpoints) = 2
        /\ pc[p] = "done"
        /\ outcome[p].kind = "Failed to process request after maxRetries attempts"
        /\ attempts[p] = 3
        /\ calls[p].markEndpointFailed = 3
        /\ endpointHealth[currentEndpoint[p]].lastFailureTime = now
        /\ \E f \in Range(endpoints) :
               endpointHealth[f].consecutiveFailures
                   < endpointHealth[currentEndpoint[p]].consecutiveFailures
----------------------------------------------------------------------------
(* The cursor: SpecPerformance *)

\* C33: for a pool of N >= 1 endpoints, 0 <= currentIndex < N holds in every
\* reachable state, after any sequence of getNextEndpoint (both policies),
\* markEndpointSuccess, markEndpointFailed and recordResponseTime calls.
C33_CursorInRange ==
    Len(endpoints) >= 1 => currentIndex \in 0..(Len(endpoints) - 1)

\* A selection has just returned the last endpoint of a pool of two, one of them
\* with failures and the other with a response time on record, and the cursor has
\* wrapped around to 0.
C33_Witness ==
    /\ Len(endpoints) = 2
    /\ last.op = "getNextEndpoint"
    /\ last.returned = endpoints[2]
    /\ currentIndex = 0
    /\ \E e \in Range(endpoints) : streak[e] > 0
    /\ \E e \in Range(endpoints) : sampleCount[e] > 0
----------------------------------------------------------------------------
(* Distribution over a healthy pool: Spec *)

\* Round-robin routing on a non-empty pool, and every answer so far was a 200: no
\* endpoint has ever been marked failed, and no call was handed a client error.
AllAnswer200 ==
    /\ ~performanceBasedRouting
    /\ Len(endpoints) >= 1
    /\ \A e \in Range(endpoints) : endpointHealth[e].lastFailureTime = 0
    /\ \A p \in Requests : reply[p].settled \in {"none", "resolved"}

\* The requests endpoint e has served.
RequestCount(e) ==
    Cardinality({p \in Requests : pc[p] = "done" /\ e \in Range(tried[p])})

RECURSIVE SumOfCounts(_)
SumOfCounts(S) ==
    IF S = {} THEN 0
    ELSE LET e == CHOOSE x \in S : TRUE
         IN  RequestCount(e) + SumOfCounts(S \ {e})

\* Every call has succeeded on its first attempt, and the requests are spread
\* evenly over the endpoints.
EvenlyServed ==
    /\ \A p \in Requests :
           /\ attempts[p] = 1
           /\ outcome[p].kind = "response" /\ outcome[p].status = 200
    /\ SumOfCounts(Range(endpoints)) = Cardinality(Requests)
    /\ \A e \in Range(endpoints), f \in Range(endpoints) :
           RequestCount(e) - RequestCount(f) <= 1

\* C34 as stated: with round-robin routing, a pool of N endpoints that all stay
\* healthy and answer 200, and K forwardRequest calls running concurrently in any
\* interleaving, every call succeeds on its first attempt, the per-endpoint request
\* counts sum to K, and any two endpoints' counts differ by at most 1.
C34_AsStated ==
    (AllAnswer200 /\ \A p \in Requests : pc[p] = "done") => EvenlyServed

\* C34, amended: the same for maxRetries >= 1.
C34_FairDistribution ==
    (AllAnswer200 /\ maxRetries >= 1 /\ \A p \in Requests : pc[p] = "done")
        => EvenlyServed

\* Two calls that were in flight at the same time on a pool of two, each answered
\* 200 after the other was sent: one request per endpoint.
C34_Witness ==
    /\ AllAnswer200
    /\ maxRetries >= 1
    /\ Len(endpoints) = 2
    /\ \A p \in Requests : pc[p] = "done" /\ ~solo[p]
    /\ \A e \in Range(endpoints) : RequestCount(e) = 1
----------------------------------------------------------------------------
(* The operations that only read: SpecHealth *)

\* C35: isHealthy and getEndpointHealth change no state at all: a getEndpointHealth
\* call, which evaluates isHealthy on every endpoint, leaves the pool, the cursor
\* and every health record as they were; and getNextEndpoint (either policy), which
\* evaluates isHealthy on the endpoints it scans, never changes any endpoint's
\* consecutiveFailures, lastFailureTime or avgResponseTimeMs.
C35_ReadOnly ==
    [][/\ last'.op = "getEndpointHealth" =>
              UNCHANGED <<endpoints, currentIndex, endpointHealth, healthCheckEnabled>>
       /\ IsSelection => endpointHealth' = endpointHealth]_vars

\* A report has just been returned while the cursor is off 0, one endpoint is
\* unhealthy and one has a response time on record.
C35_Witness ==
    /\ last.op = "getEndpointHealth"
    /\ currentIndex # 0
    /\ \E e \in Range(endpoints) : ~Healthy(e) /\ ~last.returned[e].healthy
    /\ \E e \in Range(endpoints) : endpointHealth[e].avgResponseTimeMs # RatZero
----------------------------------------------------------------------------
(* No starvation under performance routing: FairPerformance *)

\* A getNextEndpoint(true) call in this state is served by the performance-weighted
\* policy, and endpoint e is in its healthy subset.
PerformanceCandidate(e) ==
    /\ e \in Range(endpoints)
    /\ SomeResponseTime
    /\ Healthy(e)

\* Some resolution of the random choices makes getNextEndpoint(true) return e.
PossibleResult(e) ==
    \E pickFastest \in BOOLEAN, randomIndex \in RandomIndexes :
        getNextEndpoint(TRUE, pickFastest, randomIndex).endpoint = e

\* The last call was getNextEndpoint(true) and returned e.
JustSelected(e) ==
    /\ last.op = "getNextEndpoint"
    /\ last.usePerformanceBasedRouting
    /\ last.returned = e

\* C36: while the performance-weighted policy is in use, every healthy endpoint,
\* the slowest included, is a possible result of each getNextEndpoint call; and
\* when the healthy set stays fixed and the random choice is resolved fairly, every
\* healthy endpoint is selected again and again.
C36_NoStarvation ==
    /\ [](\A e \in PerfUrls : PerformanceCandidate(e) => PossibleResult(e))
    /\ \A e \in PerfUrls : <>[]PerformanceCandidate(e) => []<>JustSelected(e)

\* getNextEndpoint(true) has just returned the slower of two healthy endpoints that
\* both have a response time on record.
C36_Witness ==
    \E e \in Range(endpoints), f \in Range(endpoints) :
        /\ JustSelected(e)
        /\ Healthy(e) /\ Healthy(f)
        /\ RatLess(RatZero, endpointHealth[f].avgResponseTimeMs)
        /\ RatLess(endpointHealth[f].avgResponseTimeMs, endpointHealth[e].avgResponseTimeMs)
----------------------------------------------------------------------------
(* After the recovery window: SpecBalancer *)

\* Endpoint e went over the threshold and is healthy again only because
\* recoveryTimeMs has passed since its last failure.
RecoveredByTime(e) == streak[e] >= failThreshold /\ Healthy(e)

\* C37: the expiry of the recovery window does not reset the failure streak. An
\* endpoint that turned healthy again only because recoveryTimeMs elapsed still has
\* consecutiveFailures >= failThreshold, so a single further markEndpointFailed
\* makes it unhealthy at once and for a full recovery window; only a
\* markEndpointSuccess restores the tolerance of failThreshold failures, by setting
\* the count to 0.
C37_StreakSurvivesRecovery ==
    [][\A e \in Range(endpoints) :
          /\ RecoveredByTime(e) =>
                 endpointHealth[e].consecutiveFailures >= failThreshold
          /\ (RecoveredByTime(e) /\ MarkEndpointFailed(e)) =>
                 \A t \in now..(now + recoveryTimeMs) : ~isHealthy(endpointHealth'[e], t)
          /\ (RecoveredByTime(e) /\ endpointHealth'[e].consecutiveFailures < failThreshold)
                 => (MarkEndpointSuccess(e) /\ endpointHealth'[e].consecutiveFailures = 0)]_vars

\* An endpoint has just been marked failed for the time after the one that took it
\* to the threshold, later than a recovery window from the start, and is unhealthy.
C37_Witness ==
    \E e \in Range(endpoints) :
        /\ last.op = "markEndpointFailed"
        /\ streak[e] = failThreshold + 1
        /\ failedAt[e] = now
        /\ now > 1 + recoveryTimeMs
        /\ ~Healthy(e)
----------------------------------------------------------------------------
(* The cursor under performance routing: SpecPerformance *)

\* The getNextEndpoint call of the step is served by the performance-weighted
\* policy with a non-empty healthy subset.
WeightedSelection ==
    /\ IsSelection
    /\ last'.usePerformanceBasedRouting
    /\ SomeResponseTime
    /\ AnyHealthy

\* C38: a getNextEndpoint call that is served by the performance-weighted policy
\* with a non-empty healthy subset leaves currentIndex unchanged; the cursor moves
\* only in calls served by the round-robin policy, the performance policy's
\* fallback to it included.
C38_CursorUnderPerformance ==
    [][/\ WeightedSelection => currentIndex' = currentIndex
       /\ currentIndex' # currentIndex =>
              /\ IsSelection
              /\ \/ ~(last'.usePerformanceBasedRouting /\ SomeResponseTime)
                 \/ ~AnyHealthy]_vars

\* The performance-weighted policy has just returned the second endpoint of a pool
\* of two, and the cursor is where an earlier round-robin call put it, on 1.
C38_Witness ==
    /\ Len(endpoints) = 2
    /\ last.op = "getNextEndpoint"
    /\ last.usePerformanceBasedRouting
    /\ SomeResponseTime
    /\ AnyHealthy
    /\ last.returned = endpoints[2]
    /\ currentIndex = 1
----------------------------------------------------------------------------
(* When a call backs off: SpecLone *)

----------------------------------------------------------------------------
(* No attempts allowed: SpecLone *)

\* C40: with maxRetries <= 0, forwardRequest raises the all-attempts-exhausted error
\* with no last error, without calling getNextEndpoint, without any network call and
\* without changing selector state, even when the pool is empty: the
\* no-endpoints-available error is then never raised.
C40_NoAttemptsAllowed ==
    maxRetries <= 0 =>
        /\ \A p \in Requests :
               /\ calls[p] = NoCalls
               /\ attempts[p] = 0
               /\ pc[p] \in {"loop", "done"}
               /\ pc[p] = "done" => outcome[p] = AllAttemptsFailed(NoFailure)
        /\ currentIndex = 0
        /\ endpointHealth = [e \in Range(endpoints) |-> NewEndpointHealth]

\* With a negative maxRetries and an empty pool, a call has thrown the
\* all-attempts-exhausted error.
C40_Witness ==
    \E p \in Requests :
        /\ maxRetries < 0
        /\ Len(endpoints) = 0
        /\ pc[p] = "done"
        /\ outcome[p].kind = "Failed to process request after maxRetries attempts"
        /\ outcome[p].lastError = NoFailure

====
